---- MODULE Spec2Model ----
(***************************************************************************)
(* Model of the EDC demo connectors: the constraint-based policy          *)
(* evaluator (shared/policies.py) and the provider's negotiation,         *)
(* agreement and transfer handlers (provider-connector/contracts.py,      *)
(* transfers.py, store.py, main.py).                                      *)
(*                                                                         *)
(* Python strings are sequences of code points, so that upper()/lower(),  *)
(* lexicographic order and substring tests are computed, not assumed.     *)
(* A Python value is a record [t, s, n, l]: t is the type tag, s the      *)
(* characters of a str, n the value of an int, l the items of a list.     *)
(* uuid4-derived ids are modelled as fresh serial numbers; timestamps and *)
(* the audit log are not modelled.                                        *)
(*                                                                         *)
(* The consumer's handlers (consumer-connector/negotiations.py,           *)
(* transfers.py, store.py) await the provider over HTTP: each is modelled *)
(* as the code up to the await, the provider's handling of the request,   *)
(* and the code after the await, so that calls interleave where asyncio   *)
(* lets them.  The consumer's identity is the one initialize_store sets.  *)
(***************************************************************************)
EXTENDS Integers, Sequences, FiniteSets, TLC

VARIABLES
    negotiations,   \* provider _store["negotiations"]: id -> negotiation dict
    agreements,     \* provider _store["agreements"]:   id -> agreement dict
    transfers,      \* provider _store["transfers"]:    id -> transfer dict
    uuids,          \* how many ids uuid4 has produced, per id prefix
    response,       \* the response of the last provider call
    ev_policy,      \* evaluator harness: the policy under evaluation
    ev_context,     \* evaluator harness: the request context
    ev_result,      \* evaluator harness: what evaluate returned (or raised)
    consumer_store, \* consumer _store: negotiations, agreements, transfers,
                    \* received_data, each id -> dict
    calls           \* the consumer handler each caller is in, and where

vars == <<negotiations, agreements, transfers, uuids, response,
          ev_policy, ev_context, ev_result, consumer_store, calls>>

store_vars == <<negotiations, agreements, transfers, uuids, response>>
ev_vars == <<ev_policy, ev_context, ev_result>>
consumer_vars == <<consumer_store, calls>>

-----------------------------------------------------------------------------
(* Python values *)

Str(chars) == [t |-> "str", s |-> chars, n |-> 0, l |-> <<>>]
Num(i) == [t |-> "num", s |-> <<>>, n |-> i, l |-> <<>>]
List(items) == [t |-> "list", s |-> <<>>, n |-> 0, l |-> items]
None == [t |-> "none", s |-> <<>>, n |-> 0, l |-> <<>>]

\* String literals of the source, as code points.
S_USE == <<85, 83, 69>>
S_use == <<117, 115, 101>>
S_DISTRIBUTE == <<68, 73, 83, 84, 82, 73, 66, 85, 84, 69>>
S_MODIFY == <<77, 79, 68, 73, 70, 89>>
S_ARCHIVE == <<65, 82, 67, 72, 73, 86, 69>>
S_tier1_supplier == <<116, 105, 101, 114, 49, 95, 115, 117, 112, 112, 108, 105, 101, 114>>
S_tier2_supplier == <<116, 105, 101, 114, 50, 95, 115, 117, 112, 112, 108, 105, 101, 114>>
S_TISAX == <<84, 73, 83, 65, 88>>
S_ISO27001 == <<73, 83, 79, 50, 55, 48, 48, 49>>
S_quality_analysis == <<113, 117, 97, 108, 105, 116, 121, 95, 97, 110, 97, 108, 121, 115, 105, 115>>
S_cost_reduction == <<99, 111, 115, 116, 95, 114, 101, 100, 117, 99, 116, 105, 111, 110>>
S_NOT_PROVIDED == <<78, 79, 84, 95, 80, 82, 79, 86, 73, 68, 69, 68>>
S_eq == <<101, 113>>
S_EQ == <<69, 81>>
S_neq == <<110, 101, 113>>
S_in == <<105, 110>>
S_gt == <<103, 116>>
S_lt == <<108, 116>>
S_gte == <<103, 116, 101>>
S_lte == <<108, 116, 101>>
S_contains == <<99, 111, 110, 116, 97, 105, 110, 115>>
S_has_any == <<104, 97, 115, 95, 97, 110, 121>>
S_matches == <<109, 97, 116, 99, 104, 101, 115>>

\* str.upper() and str.lower() on ASCII text.
Upper(chars) ==
    [i \in DOMAIN chars |->
        IF chars[i] >= 97 /\ chars[i] <= 122 THEN chars[i] - 32 ELSE chars[i]]

Lower(chars) ==
    [i \in DOMAIN chars |->
        IF chars[i] >= 65 /\ chars[i] <= 90 THEN chars[i] + 32 ELSE chars[i]]

\* str(int) for a non-negative int.
RECURSIVE Digits(_)
Digits(i) == IF i < 10 THEN <<48 + i>> ELSE Digits(i \div 10) \o <<48 + (i % 10)>>

\* str(value) for the values `contains` can reach (a str or an int).
PyStr(v) == IF v.t = "str" THEN v.s ELSE Digits(v.n)

\* needle in haystack, on str.
Substring(needle, haystack) ==
    \E i \in 0..(Len(haystack) - Len(needle)) :
        SubSeq(haystack, i + 1, i + Len(needle)) = needle

\* Lexicographic comparison of two sequences of integers: "lt", "eq" or "gt".
RECURSIVE SeqCompare(_, _)
SeqCompare(a, b) ==
    IF a = <<>> /\ b = <<>> THEN "eq"
    ELSE IF a = <<>> THEN "lt"
    ELSE IF b = <<>> THEN "gt"
    ELSE IF Head(a) < Head(b) THEN "lt"
    ELSE IF Head(a) > Head(b) THEN "gt"
    ELSE SeqCompare(Tail(a), Tail(b))

\* Python's ordering of two scalars: "lt", "eq", "gt", or "TypeError" when the
\* types do not order against each other.
ScalarCompare(a, b) ==
    IF a.t = "num" /\ b.t = "num"
    THEN (IF a.n < b.n THEN "lt" ELSE IF a.n > b.n THEN "gt" ELSE "eq")
    ELSE IF a.t = "str" /\ b.t = "str" THEN SeqCompare(a.s, b.s)
    ELSE "TypeError"

\* Python's ordering of two lists: the first pair of unequal items decides.
RECURSIVE ListCompare(_, _)
ListCompare(a, b) ==
    IF a = <<>> /\ b = <<>> THEN "eq"
    ELSE IF a = <<>> THEN "lt"
    ELSE IF b = <<>> THEN "gt"
    ELSE IF Head(a) = Head(b) THEN ListCompare(Tail(a), Tail(b))
    ELSE ScalarCompare(Head(a), Head(b))

PyCompare(a, b) ==
    IF a.t = "list" /\ b.t = "list" THEN ListCompare(a.l, b.l)
    ELSE IF a.t = "list" \/ b.t = "list" THEN "TypeError"
    ELSE ScalarCompare(a, b)

\* x in items, for a Python list.
InList(x, items) == \E i \in DOMAIN items : items[i] = x

\* set(items) can be built: no item is a list (a list is unhashable, and set()
\* raises TypeError on it).
Hashable(items) == \A i \in DOMAIN items : items[i].t # "list"

\* The outcome of evaluating one Python expression: a bool, or an exception.
Returns(b) == [raised |-> FALSE, value |-> b]
Raises == [raised |-> TRUE, value |-> FALSE]

\* left <op> right for the ordered operators.
Ordered(left, right, accept) ==
    IF PyCompare(left, right) = "TypeError" THEN Raises
    ELSE Returns(PyCompare(left, right) \in accept)

-----------------------------------------------------------------------------
(* shared/policies.py: PolicyEvaluator *)

\* context.get(key) that answers "NOT_PROVIDED" for a missing key, as the trace
\* does.
ContextGetNotProvided(context, key) ==
    IF key \in DOMAIN context THEN context[key] ELSE Str(S_NOT_PROVIDED)

\* context.get(key)
ContextGet(context, key) == IF key \in DOMAIN context THEN context[key] ELSE None

\* context.get(key, default)
ContextGetDefault(context, key, default) ==
    IF key \in DOMAIN context THEN context[key] ELSE default

_action_matches(policy_action, request_action) ==
    Upper(policy_action) = Upper(request_action)

_evaluate_single_constraint(constraint, context) ==
    LET left_value == ContextGet(context, constraint.left_operand)
        right_value == constraint.right_operand
        operator == Lower(constraint.operator)
    IN  IF left_value = None THEN Returns(FALSE)
        ELSE IF operator = S_eq THEN Returns(left_value = right_value)
        ELSE IF operator = S_neq THEN Returns(left_value # right_value)
        ELSE IF operator = S_in THEN
            (IF right_value.t = "list"
             THEN Returns(InList(left_value, right_value.l))
             ELSE Returns(FALSE))
        ELSE IF operator = S_gt THEN Ordered(left_value, right_value, {"gt"})
        ELSE IF operator = S_lt THEN Ordered(left_value, right_value, {"lt"})
        ELSE IF operator = S_gte THEN Ordered(left_value, right_value, {"gt", "eq"})
        ELSE IF operator = S_lte THEN Ordered(left_value, right_value, {"lt", "eq"})
        ELSE IF operator = S_contains THEN
            (IF left_value.t = "list"
             THEN Returns(InList(right_value, left_value.l))
             ELSE IF right_value.t = "str"
                  THEN Returns(Substring(right_value.s, PyStr(left_value)))
                  ELSE Raises)
        ELSE IF operator = S_has_any THEN
            (IF left_value.t = "list" /\ right_value.t = "list"
             THEN IF ~Hashable(left_value.l) \/ ~Hashable(right_value.l)
                  THEN Raises
                  ELSE Returns(\E i \in DOMAIN left_value.l :
                                   InList(left_value.l[i], right_value.l))
             ELSE Returns(FALSE))
        ELSE Returns(FALSE)

\* One entry of the evaluated_constraints trace.
ConstraintResult(constraint, context) ==
    [constraint |-> constraint,
     context_value |->
        ContextGetDefault(context, constraint.left_operand, Str(S_NOT_PROVIDED)),
     satisfied |-> _evaluate_single_constraint(constraint, context).value]

\* Whether the loop over the constraints raises.
ConstraintsRaise(constraints, context) ==
    \E i \in DOMAIN constraints :
        _evaluate_single_constraint(constraints[i], context).raised

_evaluate_constraints(constraints, context) ==
    [i \in DOMAIN constraints |-> ConstraintResult(constraints[i], context)]

\* all(r["satisfied"] for r in constraint_results)
AllSatisfied(constraint_results) ==
    \A i \in DOMAIN constraint_results : constraint_results[i].satisfied

\* A PolicyEvaluationResult, or the exception that left evaluate.
Result(allowed, reason, action, evaluated_constraints) ==
    [raised |-> FALSE, allowed |-> allowed, reason |-> reason,
     reason_action |-> action, evaluated_constraints |-> evaluated_constraints]

Raised ==
    [raised |-> TRUE, allowed |-> FALSE, reason |-> "exception",
     reason_action |-> <<>>, evaluated_constraints |-> <<>>]

\* context.get("action", "USE")
RequestAction(context) == ContextGetDefault(context, "action", Str(S_USE))

\* ScanPermissions that reads a Permission without constraints as one that
\* grants nothing, and moves on.
RECURSIVE ScanPermissionsSkipUnconstrained(_, _, _)
ScanPermissionsSkipUnconstrained(permissions, context, evaluated_constraints) ==
    IF permissions = <<>>
    THEN Result(FALSE, "No matching permission found", <<>>, evaluated_constraints)
    ELSE LET permission == Head(permissions) IN
        IF RequestAction(context).t # "str" THEN Raised
        ELSE IF ~_action_matches(permission.action, RequestAction(context).s)
        THEN ScanPermissionsSkipUnconstrained(Tail(permissions), context,
                                              evaluated_constraints)
        ELSE IF permission.constraints = <<>>
        THEN ScanPermissionsSkipUnconstrained(Tail(permissions), context,
                                              evaluated_constraints)
        ELSE IF ConstraintsRaise(permission.constraints, context) THEN Raised
        ELSE LET constraint_results ==
                    _evaluate_constraints(permission.constraints, context)
             IN IF AllSatisfied(constraint_results)
                THEN Result(TRUE, "All permission constraints satisfied", <<>>,
                            evaluated_constraints \o constraint_results)
                ELSE ScanPermissionsSkipUnconstrained(Tail(permissions), context,
                                     evaluated_constraints \o constraint_results)

\* The loop over policy.permissions, entered with the trace gathered so far.
RECURSIVE ScanPermissions(_, _, _)
ScanPermissions(permissions, context, evaluated_constraints) ==
    IF permissions = <<>>
    THEN Result(FALSE, "No matching permission found", <<>>, evaluated_constraints)
    ELSE LET permission == Head(permissions) IN
        IF RequestAction(context).t # "str" THEN Raised
        ELSE IF ~_action_matches(permission.action, RequestAction(context).s)
        THEN ScanPermissions(Tail(permissions), context, evaluated_constraints)
        ELSE IF permission.constraints = <<>>
        THEN Result(TRUE, "Permission granted (no constraints)", <<>>,
                    evaluated_constraints)
        ELSE IF ConstraintsRaise(permission.constraints, context) THEN Raised
        ELSE LET constraint_results ==
                    _evaluate_constraints(permission.constraints, context)
             IN IF AllSatisfied(constraint_results)
                THEN Result(TRUE, "All permission constraints satisfied", <<>>,
                            evaluated_constraints \o constraint_results)
                ELSE ScanPermissions(Tail(permissions), context,
                                     evaluated_constraints \o constraint_results)

\* The loop over policy.prohibitions, then the permissions.
RECURSIVE ScanProhibitions(_, _, _, _)
ScanProhibitions(prohibitions, permissions, context, evaluated_constraints) ==
    IF prohibitions = <<>>
    THEN ScanPermissions(permissions, context, evaluated_constraints)
    ELSE LET prohibition == Head(prohibitions) IN
        IF RequestAction(context).t # "str" THEN Raised
        ELSE IF ~_action_matches(prohibition.action, RequestAction(context).s)
        THEN ScanProhibitions(Tail(prohibitions), permissions, context,
                              evaluated_constraints)
        ELSE IF ConstraintsRaise(prohibition.constraints, context) THEN Raised
        ELSE LET constraint_results ==
                    _evaluate_constraints(prohibition.constraints, context)
             IN IF AllSatisfied(constraint_results)
                THEN Result(FALSE, "Action is prohibited", prohibition.action,
                            constraint_results)
                ELSE ScanProhibitions(Tail(prohibitions), permissions, context,
                                      evaluated_constraints \o constraint_results)

\* evaluate that starts from the trace the previous evaluation left behind.
evaluate_keeping_trace(policy, context) ==
    ScanProhibitions(policy.prohibitions, policy.permissions, context,
                     ev_result.evaluated_constraints)

evaluate(policy, context) ==
    ScanProhibitions(policy.prohibitions, policy.permissions, context, <<>>)

-----------------------------------------------------------------------------
(* shared/policies.py: the policy templates bound to the provider's assets *)

Constraint(leftOperand, operator, rightOperand) ==
    [left_operand |-> leftOperand, operator |-> operator,
     right_operand |-> rightOperand]

Permission(action, constraints) == [action |-> action, constraints |-> constraints]

Prohibition(action, constraints) == [action |-> action, constraints |-> constraints]

Policy(id, permissions, prohibitions) ==
    [id |-> id, permissions |-> permissions, prohibitions |-> prohibitions]

TIER1_SUPPLIER_ONLY_POLICY ==
    Policy("policy-tier1-only",
           <<Permission(S_USE,
                <<Constraint("partner_type", S_eq, Str(S_tier1_supplier))>>)>>,
           <<Prohibition(S_DISTRIBUTE, <<>>)>>)

CERTIFIED_PARTNERS_POLICY ==
    Policy("policy-certified-partners",
           <<Permission(S_USE,
                <<Constraint("certification", S_has_any,
                             List(<<Str(S_TISAX), Str(S_ISO27001)>>))>>)>>,
           <<Prohibition(S_DISTRIBUTE, <<>>), Prohibition(S_MODIFY, <<>>)>>)

QUALITY_DATA_POLICY ==
    Policy("policy-quality-data",
           <<Permission(S_USE,
                <<Constraint("partner_type", S_in,
                             List(<<Str(S_tier1_supplier), Str(S_tier2_supplier)>>)),
                  Constraint("purpose", S_eq, Str(S_quality_analysis))>>)>>,
           <<Prohibition(S_DISTRIBUTE, <<>>), Prohibition(S_ARCHIVE, <<>>)>>)

\* The templates an asset of the provider's store is bound to.
POLICY_TEMPLATES ==
    [policy_id \in {"tier1-only", "certified-partners", "quality-data"} |->
        CASE policy_id = "tier1-only" -> TIER1_SUPPLIER_ONLY_POLICY
          [] policy_id = "certified-partners" -> CERTIFIED_PARTNERS_POLICY
          [] policy_id = "quality-data" -> QUALITY_DATA_POLICY]

-----------------------------------------------------------------------------
(* provider-connector/store.py *)

\* Bounds of the model: how many negotiations and transfers are ever created.
MaxNegotiations == 1
MaxTransfers == 1

\* _store["assets"] as initialize_store builds it.
ASSETS ==
    <<[id |-> "part-catalog-2024", policy_id |-> "tier1-only",
       data_file |-> "part-catalog.json"],
      [id |-> "quality-metrics-q4", policy_id |-> "quality-data",
       data_file |-> "quality-data.json"],
      [id |-> "traceability-batch-001", policy_id |-> "certified-partners",
       data_file |-> "traceability-data.json"]>>

\* get_asset_by_id found an asset.
HasAsset(asset_id) == \E i \in DOMAIN ASSETS : ASSETS[i].id = asset_id

get_asset_by_id(asset_id) == CHOOSE a \in {ASSETS[i] : i \in DOMAIN ASSETS} : a.id = asset_id

\* What a transfer carries in "data": nothing, or the parsed content of a file.
NoData == [present |-> FALSE, file |-> "", empty |-> FALSE]
Json(file, empty) == [present |-> TRUE, file |-> file, empty |-> empty]

\* get_asset_data: `opened` is what opening and parsing the asset's sample-data
\* file gives at the time of the call: FileNotFoundError, an empty JSON document
\* ({} or []), or a document with content.
FileOutcomes == {"FileNotFoundError", "empty", "document"}

\* get_asset_data that reads the file of the catalog's first asset.
get_asset_data_first_file(asset_id, opened) ==
    IF ~HasAsset(asset_id) THEN NoData
    ELSE IF opened = "FileNotFoundError" THEN NoData
    ELSE Json(ASSETS[1].data_file, opened = "empty")

\* get_asset_data that takes a missing file for a document.
get_asset_data_missing_file(asset_id, opened) ==
    IF ~HasAsset(asset_id) THEN NoData
    ELSE IF get_asset_by_id(asset_id).data_file = "" THEN NoData
    ELSE Json(get_asset_by_id(asset_id).data_file, opened = "empty")

get_asset_data(asset_id, opened) ==
    IF ~HasAsset(asset_id) THEN NoData
    ELSE IF get_asset_by_id(asset_id).data_file = "" THEN NoData
    ELSE IF opened = "FileNotFoundError" THEN NoData
    ELSE Json(get_asset_by_id(asset_id).data_file, opened = "empty")

\* Python truthiness of what get_asset_data returned: `not data`.
Falsy(data) == ~data.present \/ data.empty

\* The HTTP response of a handler: the status code and, for an HTTPException,
\* the "error" of its detail; `current` and `expected` are the states its
\* message names; `state` is the "dspace:state" of a success response.
Ok(op, id, state) ==
    [op |-> op, id |-> id, status |-> 200, error |-> "", current |-> "",
     expected |-> "", state |-> state]

HTTPException(op, id, status_code, error, current, expected) ==
    [op |-> op, id |-> id, status |-> status_code, error |-> error,
     current |-> current, expected |-> expected, state |-> ""]

\* An exception that is no HTTPException leaves the handler: FastAPI answers 500.
InternalServerError(op, id) ==
    [op |-> op, id |-> id, status |-> 500, error |-> "Internal Server Error",
     current |-> "", expected |-> "", state |-> ""]

NoResponse ==
    [op |-> "", id |-> 0, status |-> 0, error |-> "", current |-> "",
     expected |-> "", state |-> ""]

\* initialize_store: the catalog is rebuilt, the three dictionaries are emptied.
initialize_store ==
    /\ negotiations' = <<>>
    /\ agreements' = <<>>
    /\ transfers' = <<>>

\* A dictionary with one more key.
Put(dict, key, value) ==
    [k \in DOMAIN dict \cup {key} |-> IF k = key THEN value ELSE dict[k]]

\* save_negotiation that writes the record under every key of the dictionary.
save_negotiation_every_key(negotiation_id, negotiation) ==
    negotiations' = [k \in DOMAIN negotiations \cup {negotiation_id} |-> negotiation]

save_negotiation(negotiation_id, negotiation) ==
    negotiations' = Put(negotiations, negotiation_id, negotiation)

save_agreement(agreement_id, agreement) ==
    agreements' = Put(agreements, agreement_id, agreement)

save_transfer(transfer_id, transfer) ==
    transfers' = Put(transfers, transfer_id, transfer)

\* uuid.uuid4(): the next unused id of a kind.
uuid4(kind) == uuids[kind] + 1

Issued(kind) == uuids' = [uuids EXCEPT ![kind] = uuids[kind] + 1]

-----------------------------------------------------------------------------
(* provider-connector/contracts.py *)

PROVIDER_ID == "provider-automotors-oem"

\* A timestamp field that is absent (None) or holds the time of the call.
Unset == "None"
Now == "utcnow"

\* An entry of a negotiation's state_history; keys an entry lacks are blank.
HistoryEntry(state, actor, policy_evaluation, reason, reason_action, agreement_id) ==
    [state |-> state, actor |-> actor, policy_evaluation |-> policy_evaluation,
     reason |-> reason, reason_action |-> reason_action,
     agreement_id |-> agreement_id]

\* negotiation["policy_evaluation"]: absent until offer has evaluated the policy.
NoEvaluation ==
    [present |-> FALSE, allowed |-> FALSE, reason |-> "", reason_action |-> <<>>,
     evaluated_constraints |-> <<>>]

\* What offer evaluates: a request context, or None (a body without attributes).
Attrs(context) == [is_none |-> FALSE, dict |-> context]
NoneAttrs == [is_none |-> TRUE, dict |-> <<>>]

\* The body of an offer call: no body at all, or a NegotiationAction.
NoAction == [given |-> FALSE, consumer_attributes |-> NoneAttrs]
NegotiationAction(consumer_attributes) ==
    [given |-> TRUE, consumer_attributes |-> consumer_attributes]

\* policy_evaluator.evaluate(policy, consumer_attrs): a None context raises
\* AttributeError at the first context.get, inside either loop.
evaluate_attrs(policy, consumer_attrs) ==
    IF ~consumer_attrs.is_none THEN evaluate(policy, consumer_attrs.dict)
    ELSE IF policy.prohibitions = <<>> /\ policy.permissions = <<>>
         THEN evaluate(policy, <<>>)
         ELSE Raised

\* A call that changes nothing in the store and answers `r`.
Answer(r) ==
    /\ response' = r
    /\ UNCHANGED <<negotiations, agreements, transfers, uuids>>

\* initiate_negotiation that binds every negotiation to the policy of the first
\* asset of the catalog.
initiate_negotiation_first_policy(consumer_id, asset_id, consumer_attributes) ==
    IF ~HasAsset(asset_id)
    THEN Answer(HTTPException("initiate_negotiation", 0, 404, "ASSET_NOT_FOUND", "", ""))
    ELSE LET negotiation_id == uuid4("negotiation")
             negotiation ==
                [state |-> "REQUESTED",
                 provider_id |-> PROVIDER_ID,
                 consumer_id |-> consumer_id,
                 asset_id |-> asset_id,
                 policy_id |-> ASSETS[1].policy_id,
                 consumer_attributes |->
                    IF consumer_attributes.is_none THEN <<>>
                    ELSE consumer_attributes.dict,
                 state_history |->
                    <<HistoryEntry("REQUESTED", consumer_id, "", "", <<>>, 0)>>,
                 policy_evaluation |-> NoEvaluation,
                 agreement_id |-> 0,
                 created_at |-> Now]
         IN /\ Issued("negotiation")
            /\ save_negotiation(negotiation_id, negotiation)
            /\ response' = Ok("initiate_negotiation", negotiation_id, "REQUESTED")
            /\ UNCHANGED <<agreements, transfers>>

initiate_negotiation(consumer_id, asset_id, consumer_attributes) ==
    IF ~HasAsset(asset_id)
    THEN Answer(HTTPException("initiate_negotiation", 0, 404, "ASSET_NOT_FOUND", "", ""))
    ELSE LET asset == get_asset_by_id(asset_id)
             policy_id == asset.policy_id
             negotiation_id == uuid4("negotiation")
             negotiation ==
                [state |-> "REQUESTED",
                 provider_id |-> PROVIDER_ID,
                 consumer_id |-> consumer_id,
                 asset_id |-> asset_id,
                 policy_id |-> policy_id,
                 consumer_attributes |->
                    IF consumer_attributes.is_none THEN <<>>
                    ELSE consumer_attributes.dict,
                 state_history |->
                    <<HistoryEntry("REQUESTED", consumer_id, "", "", <<>>, 0)>>,
                 policy_evaluation |-> NoEvaluation,
                 agreement_id |-> 0,
                 created_at |-> Now]
         IN IF policy_id \notin DOMAIN POLICY_TEMPLATES
            THEN Answer(HTTPException("initiate_negotiation", 0, 500,
                                      "POLICY_NOT_FOUND", "", ""))
            ELSE /\ Issued("negotiation")
                 /\ save_negotiation(negotiation_id, negotiation)
                 /\ response' = Ok("initiate_negotiation", negotiation_id, "REQUESTED")
                 /\ UNCHANGED <<agreements, transfers>>

\* GET /api/negotiations/{id}: the negotiation's current state; nothing is
\* written.
get_negotiation_status(negotiation_id) ==
    IF negotiation_id \notin DOMAIN negotiations
    THEN Answer(HTTPException("status", negotiation_id, 404,
                              "NEGOTIATION_NOT_FOUND", "", ""))
    ELSE Answer(Ok("status", negotiation_id, negotiations[negotiation_id].state))

\* provider_offer that makes the offer whatever the evaluator answered.
provider_offer_ungated(negotiation_id, action) ==
    IF negotiation_id \notin DOMAIN negotiations
    THEN Answer(HTTPException("offer", negotiation_id, 404,
                              "NEGOTIATION_NOT_FOUND", "", ""))
    ELSE LET negotiation == negotiations[negotiation_id] IN
    IF negotiation.state # "REQUESTED"
    THEN Answer(HTTPException("offer", negotiation_id, 400, "INVALID_STATE",
                              negotiation.state, "REQUESTED"))
    ELSE LET policy == POLICY_TEMPLATES[negotiation.policy_id]
             consumer_attrs ==
                IF action.given THEN action.consumer_attributes
                ELSE Attrs(negotiation.consumer_attributes)
             result == evaluate_attrs(policy, consumer_attrs)
         IN IF result.raised
            THEN Answer(InternalServerError("offer", negotiation_id))
            ELSE /\ save_negotiation(negotiation_id,
                    [negotiation EXCEPT
                        !.state = "OFFERED",
                        !.state_history = Append(@,
                            HistoryEntry("OFFERED", PROVIDER_ID, "PASSED", "", <<>>, 0)),
                        !.policy_evaluation =
                            [present |-> TRUE, allowed |-> TRUE, reason |-> "",
                             reason_action |-> <<>>,
                             evaluated_constraints |-> result.evaluated_constraints]])
                 /\ response' = Ok("offer", negotiation_id, "OFFERED")
                 /\ UNCHANGED <<agreements, transfers, uuids>>

\* provider_offer that records a denial without the evaluator's reason.
provider_offer_no_reason(negotiation_id, action) ==
    IF negotiation_id \notin DOMAIN negotiations
    THEN Answer(HTTPException("offer", negotiation_id, 404,
                              "NEGOTIATION_NOT_FOUND", "", ""))
    ELSE LET negotiation == negotiations[negotiation_id] IN
    IF negotiation.state # "REQUESTED"
    THEN Answer(HTTPException("offer", negotiation_id, 400, "INVALID_STATE",
                              negotiation.state, "REQUESTED"))
    ELSE LET policy == POLICY_TEMPLATES[negotiation.policy_id]
             consumer_attrs ==
                IF action.given THEN action.consumer_attributes
                ELSE Attrs(negotiation.consumer_attributes)
             result == evaluate_attrs(policy, consumer_attrs)
         IN IF result.raised
            THEN Answer(InternalServerError("offer", negotiation_id))
            ELSE IF result.allowed
            THEN /\ save_negotiation(negotiation_id,
                    [negotiation EXCEPT
                        !.state = "OFFERED",
                        !.state_history = Append(@,
                            HistoryEntry("OFFERED", PROVIDER_ID, "PASSED", "", <<>>, 0)),
                        !.policy_evaluation =
                            [present |-> TRUE, allowed |-> TRUE, reason |-> "",
                             reason_action |-> <<>>,
                             evaluated_constraints |-> result.evaluated_constraints]])
                 /\ response' = Ok("offer", negotiation_id, "OFFERED")
                 /\ UNCHANGED <<agreements, transfers, uuids>>
            ELSE /\ save_negotiation(negotiation_id,
                    [negotiation EXCEPT
                        !.state = "TERMINATED",
                        !.state_history = Append(@,
                            HistoryEntry("TERMINATED", PROVIDER_ID, "FAILED",
                                         "", <<>>, 0)),
                        !.policy_evaluation =
                            [present |-> TRUE, allowed |-> FALSE,
                             reason |-> "",
                             reason_action |-> <<>>,
                             evaluated_constraints |-> result.evaluated_constraints]])
                 /\ response' = Ok("offer", negotiation_id, "TERMINATED")
                 /\ UNCHANGED <<agreements, transfers, uuids>>

\* provider_offer that keeps the attributes it evaluated on the negotiation.
provider_offer_storing_override(negotiation_id, action) ==
    IF negotiation_id \notin DOMAIN negotiations
    THEN Answer(HTTPException("offer", negotiation_id, 404,
                              "NEGOTIATION_NOT_FOUND", "", ""))
    ELSE LET negotiation == negotiations[negotiation_id] IN
    IF negotiation.state # "REQUESTED"
    THEN Answer(HTTPException("offer", negotiation_id, 400, "INVALID_STATE",
                              negotiation.state, "REQUESTED"))
    ELSE LET policy == POLICY_TEMPLATES[negotiation.policy_id]
             consumer_attrs ==
                IF action.given THEN action.consumer_attributes
                ELSE Attrs(negotiation.consumer_attributes)
             result == evaluate_attrs(policy, consumer_attrs)
         IN IF result.raised
            THEN Answer(InternalServerError("offer", negotiation_id))
            ELSE IF result.allowed
            THEN /\ save_negotiation(negotiation_id,
                    [negotiation EXCEPT
                        !.state = "OFFERED",
                        !.consumer_attributes = consumer_attrs.dict,
                        !.state_history = Append(@,
                            HistoryEntry("OFFERED", PROVIDER_ID, "PASSED", "", <<>>, 0)),
                        !.policy_evaluation =
                            [present |-> TRUE, allowed |-> TRUE, reason |-> "",
                             reason_action |-> <<>>,
                             evaluated_constraints |-> result.evaluated_constraints]])
                 /\ response' = Ok("offer", negotiation_id, "OFFERED")
                 /\ UNCHANGED <<agreements, transfers, uuids>>
            ELSE /\ save_negotiation(negotiation_id,
                    [negotiation EXCEPT
                        !.state = "TERMINATED",
                        !.consumer_attributes = consumer_attrs.dict,
                        !.state_history = Append(@,
                            HistoryEntry("TERMINATED", PROVIDER_ID, "FAILED",
                                         result.reason, result.reason_action, 0)),
                        !.policy_evaluation =
                            [present |-> TRUE, allowed |-> FALSE,
                             reason |-> result.reason,
                             reason_action |-> result.reason_action,
                             evaluated_constraints |-> result.evaluated_constraints]])
                 /\ response' = Ok("offer", negotiation_id, "TERMINATED")
                 /\ UNCHANGED <<agreements, transfers, uuids>>

provider_offer(negotiation_id, action) ==
    IF negotiation_id \notin DOMAIN negotiations
    THEN Answer(HTTPException("offer", negotiation_id, 404,
                              "NEGOTIATION_NOT_FOUND", "", ""))
    ELSE LET negotiation == negotiations[negotiation_id] IN
    IF negotiation.state # "REQUESTED"
    THEN Answer(HTTPException("offer", negotiation_id, 400, "INVALID_STATE",
                              negotiation.state, "REQUESTED"))
    ELSE LET policy == POLICY_TEMPLATES[negotiation.policy_id]
             consumer_attrs ==
                IF action.given THEN action.consumer_attributes
                ELSE Attrs(negotiation.consumer_attributes)
             result == evaluate_attrs(policy, consumer_attrs)
         IN IF result.raised
            THEN Answer(InternalServerError("offer", negotiation_id))
            ELSE IF result.allowed
            THEN /\ save_negotiation(negotiation_id,
                    [negotiation EXCEPT
                        !.state = "OFFERED",
                        !.state_history = Append(@,
                            HistoryEntry("OFFERED", PROVIDER_ID, "PASSED", "", <<>>, 0)),
                        !.policy_evaluation =
                            [present |-> TRUE, allowed |-> TRUE, reason |-> "",
                             reason_action |-> <<>>,
                             evaluated_constraints |-> result.evaluated_constraints]])
                 /\ response' = Ok("offer", negotiation_id, "OFFERED")
                 /\ UNCHANGED <<agreements, transfers, uuids>>
            ELSE /\ save_negotiation(negotiation_id,
                    [negotiation EXCEPT
                        !.state = "TERMINATED",
                        !.state_history = Append(@,
                            HistoryEntry("TERMINATED", PROVIDER_ID, "FAILED",
                                         result.reason, result.reason_action, 0)),
                        !.policy_evaluation =
                            [present |-> TRUE, allowed |-> FALSE,
                             reason |-> result.reason,
                             reason_action |-> result.reason_action,
                             evaluated_constraints |-> result.evaluated_constraints]])
                 /\ response' = Ok("offer", negotiation_id, "TERMINATED")
                 /\ UNCHANGED <<agreements, transfers, uuids>>

\* consumer_agree that records the state it found, not the state it set.
consumer_agree_recording_old_state(negotiation_id) ==
    IF negotiation_id \notin DOMAIN negotiations
    THEN Answer(HTTPException("agree", negotiation_id, 404,
                              "NEGOTIATION_NOT_FOUND", "", ""))
    ELSE LET negotiation == negotiations[negotiation_id] IN
    IF negotiation.state # "OFFERED"
    THEN Answer(HTTPException("agree", negotiation_id, 400, "INVALID_STATE",
                              negotiation.state, "OFFERED"))
    ELSE /\ save_negotiation(negotiation_id,
            [negotiation EXCEPT
                !.state = "AGREED",
                !.state_history = Append(@,
                    HistoryEntry(negotiation.state, negotiation.consumer_id,
                                 "", "", <<>>, 0))])
         /\ response' = Ok("agree", negotiation_id, "AGREED")
         /\ UNCHANGED <<agreements, transfers, uuids>>

\* consumer_agree without its state guard.
consumer_agree_any_state(negotiation_id) ==
    IF negotiation_id \notin DOMAIN negotiations
    THEN Answer(HTTPException("agree", negotiation_id, 404,
                              "NEGOTIATION_NOT_FOUND", "", ""))
    ELSE LET negotiation == negotiations[negotiation_id] IN
         /\ save_negotiation(negotiation_id,
            [negotiation EXCEPT
                !.state = "AGREED",
                !.state_history = Append(@,
                    HistoryEntry("AGREED", negotiation.consumer_id, "", "", <<>>, 0))])
         /\ response' = Ok("agree", negotiation_id, "AGREED")
         /\ UNCHANGED <<agreements, transfers, uuids>>

consumer_agree(negotiation_id) ==
    IF negotiation_id \notin DOMAIN negotiations
    THEN Answer(HTTPException("agree", negotiation_id, 404,
                              "NEGOTIATION_NOT_FOUND", "", ""))
    ELSE LET negotiation == negotiations[negotiation_id] IN
    IF negotiation.state # "OFFERED"
    THEN Answer(HTTPException("agree", negotiation_id, 400, "INVALID_STATE",
                              negotiation.state, "OFFERED"))
    ELSE /\ save_negotiation(negotiation_id,
            [negotiation EXCEPT
                !.state = "AGREED",
                !.state_history = Append(@,
                    HistoryEntry("AGREED", negotiation.consumer_id, "", "", <<>>, 0))])
         /\ response' = Ok("agree", negotiation_id, "AGREED")
         /\ UNCHANGED <<agreements, transfers, uuids>>

\* verify_agreement that also takes a negotiation still in OFFERED.
verify_agreement_from_offered(negotiation_id) ==
    IF negotiation_id \notin DOMAIN negotiations
    THEN Answer(HTTPException("verify", negotiation_id, 404,
                              "NEGOTIATION_NOT_FOUND", "", ""))
    ELSE LET negotiation == negotiations[negotiation_id] IN
    IF negotiation.state \notin {"OFFERED", "AGREED"}
    THEN Answer(HTTPException("verify", negotiation_id, 400, "INVALID_STATE",
                              negotiation.state, "AGREED"))
    ELSE /\ save_negotiation(negotiation_id,
            [negotiation EXCEPT
                !.state = "VERIFIED",
                !.state_history = Append(@,
                    HistoryEntry("VERIFIED", PROVIDER_ID, "", "", <<>>, 0))])
         /\ response' = Ok("verify", negotiation_id, "VERIFIED")
         /\ UNCHANGED <<agreements, transfers, uuids>>

verify_agreement(negotiation_id) ==
    IF negotiation_id \notin DOMAIN negotiations
    THEN Answer(HTTPException("verify", negotiation_id, 404,
                              "NEGOTIATION_NOT_FOUND", "", ""))
    ELSE LET negotiation == negotiations[negotiation_id] IN
    IF negotiation.state # "AGREED"
    THEN Answer(HTTPException("verify", negotiation_id, 400, "INVALID_STATE",
                              negotiation.state, "AGREED"))
    ELSE /\ save_negotiation(negotiation_id,
            [negotiation EXCEPT
                !.state = "VERIFIED",
                !.state_history = Append(@,
                    HistoryEntry("VERIFIED", "system", "", "", <<>>, 0))])
         /\ response' = Ok("verify", negotiation_id, "VERIFIED")
         /\ UNCHANGED <<agreements, transfers, uuids>>

\* finalize_agreement that leaves negotiation["agreement_id"] unwritten.
finalize_agreement_unlinked(negotiation_id) ==
    IF negotiation_id \notin DOMAIN negotiations
    THEN Answer(HTTPException("finalize", negotiation_id, 404,
                              "NEGOTIATION_NOT_FOUND", "", ""))
    ELSE LET negotiation == negotiations[negotiation_id] IN
    IF negotiation.state # "VERIFIED"
    THEN Answer(HTTPException("finalize", negotiation_id, 400, "INVALID_STATE",
                              negotiation.state, "VERIFIED"))
    ELSE LET agreement_id == uuid4("agreement")
             agreement ==
                [negotiation_id |-> negotiation_id,
                 asset_id |-> negotiation.asset_id,
                 policy_id |-> negotiation.policy_id,
                 provider_id |-> negotiation.provider_id,
                 consumer_id |-> negotiation.consumer_id,
                 signing_date |-> Now,
                 status |-> "ACTIVE"]
         IN /\ Issued("agreement")
            /\ save_agreement(agreement_id, agreement)
            /\ save_negotiation(negotiation_id,
                [negotiation EXCEPT
                    !.state = "FINALIZED",
                    !.state_history = Append(@,
                        HistoryEntry("FINALIZED", "system", "", "", <<>>,
                                     agreement_id))])
            /\ response' = Ok("finalize", negotiation_id, "FINALIZED")
            /\ UNCHANGED transfers

\* finalize_agreement whose guard also lets a FINALIZED negotiation through.
finalize_agreement_repeatable(negotiation_id) ==
    IF negotiation_id \notin DOMAIN negotiations
    THEN Answer(HTTPException("finalize", negotiation_id, 404,
                              "NEGOTIATION_NOT_FOUND", "", ""))
    ELSE LET negotiation == negotiations[negotiation_id] IN
    IF negotiation.state \notin {"VERIFIED", "FINALIZED"}
    THEN Answer(HTTPException("finalize", negotiation_id, 400, "INVALID_STATE",
                              negotiation.state, "VERIFIED"))
    ELSE LET agreement_id == uuid4("agreement")
             agreement ==
                [negotiation_id |-> negotiation_id,
                 asset_id |-> negotiation.asset_id,
                 policy_id |-> negotiation.policy_id,
                 provider_id |-> negotiation.provider_id,
                 consumer_id |-> negotiation.consumer_id,
                 signing_date |-> Now,
                 status |-> "ACTIVE"]
         IN /\ Issued("agreement")
            /\ save_agreement(agreement_id, agreement)
            /\ save_negotiation(negotiation_id,
                [negotiation EXCEPT
                    !.state = "FINALIZED",
                    !.agreement_id = agreement_id,
                    !.state_history = Append(@,
                        HistoryEntry("FINALIZED", "system", "", "", <<>>,
                                     agreement_id))])
            /\ response' = Ok("finalize", negotiation_id, "FINALIZED")
            /\ UNCHANGED transfers

finalize_agreement(negotiation_id) ==
    IF negotiation_id \notin DOMAIN negotiations
    THEN Answer(HTTPException("finalize", negotiation_id, 404,
                              "NEGOTIATION_NOT_FOUND", "", ""))
    ELSE LET negotiation == negotiations[negotiation_id] IN
    IF negotiation.state # "VERIFIED"
    THEN Answer(HTTPException("finalize", negotiation_id, 400, "INVALID_STATE",
                              negotiation.state, "VERIFIED"))
    ELSE LET agreement_id == uuid4("agreement")
             agreement ==
                [negotiation_id |-> negotiation_id,
                 asset_id |-> negotiation.asset_id,
                 policy_id |-> negotiation.policy_id,
                 provider_id |-> negotiation.provider_id,
                 consumer_id |-> negotiation.consumer_id,
                 signing_date |-> Now,
                 status |-> "ACTIVE"]
         IN /\ Issued("agreement")
            /\ save_agreement(agreement_id, agreement)
            /\ save_negotiation(negotiation_id,
                [negotiation EXCEPT
                    !.state = "FINALIZED",
                    !.agreement_id = agreement_id,
                    !.state_history = Append(@,
                        HistoryEntry("FINALIZED", "system", "", "", <<>>,
                                     agreement_id))])
            /\ response' = Ok("finalize", negotiation_id, "FINALIZED")
            /\ UNCHANGED transfers

\* terminate_negotiation that refuses a negotiation already VERIFIED.
terminate_negotiation_before_verified(negotiation_id) ==
    IF negotiation_id \notin DOMAIN negotiations
    THEN Answer(HTTPException("terminate", negotiation_id, 404,
                              "NEGOTIATION_NOT_FOUND", "", ""))
    ELSE LET negotiation == negotiations[negotiation_id] IN
    IF negotiation.state \in {"VERIFIED", "FINALIZED", "TERMINATED"}
    THEN Answer(HTTPException("terminate", negotiation_id, 400, "INVALID_STATE",
                              negotiation.state, ""))
    ELSE /\ save_negotiation(negotiation_id,
            [negotiation EXCEPT
                !.state = "TERMINATED",
                !.state_history = Append(@,
                    HistoryEntry("TERMINATED", "user", "",
                                 "User requested termination", <<>>, 0))])
         /\ response' = Ok("terminate", negotiation_id, "TERMINATED")
         /\ UNCHANGED <<agreements, transfers, uuids>>

\* terminate_negotiation whose guard forgets FINALIZED.
terminate_negotiation_finalized(negotiation_id) ==
    IF negotiation_id \notin DOMAIN negotiations
    THEN Answer(HTTPException("terminate", negotiation_id, 404,
                              "NEGOTIATION_NOT_FOUND", "", ""))
    ELSE LET negotiation == negotiations[negotiation_id] IN
    IF negotiation.state \in {"TERMINATED"}
    THEN Answer(HTTPException("terminate", negotiation_id, 400, "INVALID_STATE",
                              negotiation.state, ""))
    ELSE /\ save_negotiation(negotiation_id,
            [negotiation EXCEPT
                !.state = "TERMINATED",
                !.state_history = Append(@,
                    HistoryEntry("TERMINATED", "user", "",
                                 "User requested termination", <<>>, 0))])
         /\ response' = Ok("terminate", negotiation_id, "TERMINATED")
         /\ UNCHANGED <<agreements, transfers, uuids>>

terminate_negotiation(negotiation_id) ==
    IF negotiation_id \notin DOMAIN negotiations
    THEN Answer(HTTPException("terminate", negotiation_id, 404,
                              "NEGOTIATION_NOT_FOUND", "", ""))
    ELSE LET negotiation == negotiations[negotiation_id] IN
    IF negotiation.state \in {"FINALIZED", "TERMINATED"}
    THEN Answer(HTTPException("terminate", negotiation_id, 400, "INVALID_STATE",
                              negotiation.state, ""))
    ELSE /\ save_negotiation(negotiation_id,
            [negotiation EXCEPT
                !.state = "TERMINATED",
                !.state_history = Append(@,
                    HistoryEntry("TERMINATED", "user", "",
                                 "User requested termination", <<>>, 0))])
         /\ response' = Ok("terminate", negotiation_id, "TERMINATED")
         /\ UNCHANGED <<agreements, transfers, uuids>>

-----------------------------------------------------------------------------
(* provider-connector/transfers.py *)

\* initiate_transfer that binds the transfer to the first asset of the catalog.
initiate_transfer_first_asset(agreement_id) ==
    IF agreement_id \notin DOMAIN agreements
    THEN Answer(HTTPException("initiate_transfer", agreement_id, 404,
                              "AGREEMENT_NOT_FOUND", "", ""))
    ELSE LET agreement == agreements[agreement_id] IN
    IF agreement.status # "ACTIVE"
    THEN Answer(HTTPException("initiate_transfer", agreement_id, 400,
                              "AGREEMENT_NOT_ACTIVE", "", ""))
    ELSE LET transfer_id == uuid4("transfer")
             transfer ==
                [state |-> "REQUESTED",
                 agreement_id |-> agreement_id,
                 asset_id |-> ASSETS[1].id,
                 provider_id |-> agreement.provider_id,
                 consumer_id |-> agreement.consumer_id,
                 started_at |-> Unset,
                 completed_at |-> Unset,
                 data |-> NoData,
                 state_history |-> <<"REQUESTED">>]
         IN /\ Issued("transfer")
            /\ save_transfer(transfer_id, transfer)
            /\ response' = Ok("initiate_transfer", transfer_id, "REQUESTED")
            /\ UNCHANGED <<negotiations, agreements>>

\* initiate_transfer that looks the id up among the negotiations.
initiate_transfer_by_negotiation(agreement_id) ==
    IF agreement_id \notin DOMAIN negotiations
    THEN Answer(HTTPException("initiate_transfer", agreement_id, 404,
                              "AGREEMENT_NOT_FOUND", "", ""))
    ELSE LET agreement == negotiations[agreement_id]
             transfer_id == uuid4("transfer")
             transfer ==
                [state |-> "REQUESTED",
                 agreement_id |-> agreement_id,
                 asset_id |-> agreement.asset_id,
                 provider_id |-> agreement.provider_id,
                 consumer_id |-> agreement.consumer_id,
                 started_at |-> Unset,
                 completed_at |-> Unset,
                 data |-> NoData,
                 state_history |-> <<"REQUESTED">>]
         IN /\ Issued("transfer")
            /\ save_transfer(transfer_id, transfer)
            /\ response' = Ok("initiate_transfer", transfer_id, "REQUESTED")
            /\ UNCHANGED <<negotiations, agreements>>

initiate_transfer(agreement_id) ==
    IF agreement_id \notin DOMAIN agreements
    THEN Answer(HTTPException("initiate_transfer", agreement_id, 404,
                              "AGREEMENT_NOT_FOUND", "", ""))
    ELSE LET agreement == agreements[agreement_id] IN
    IF agreement.status # "ACTIVE"
    THEN Answer(HTTPException("initiate_transfer", agreement_id, 400,
                              "AGREEMENT_NOT_ACTIVE", "", ""))
    ELSE LET transfer_id == uuid4("transfer")
             transfer ==
                [state |-> "REQUESTED",
                 agreement_id |-> agreement_id,
                 asset_id |-> agreement.asset_id,
                 provider_id |-> agreement.provider_id,
                 consumer_id |-> agreement.consumer_id,
                 started_at |-> Unset,
                 completed_at |-> Unset,
                 data |-> NoData,
                 state_history |-> <<"REQUESTED">>]
         IN /\ Issued("transfer")
            /\ save_transfer(transfer_id, transfer)
            /\ response' = Ok("initiate_transfer", transfer_id, "REQUESTED")
            /\ UNCHANGED <<negotiations, agreements>>

\* start_transfer that also starts a SUSPENDED transfer again.
start_transfer_resuming(transfer_id) ==
    IF transfer_id \notin DOMAIN transfers
    THEN Answer(HTTPException("start", transfer_id, 404, "TRANSFER_NOT_FOUND", "", ""))
    ELSE LET transfer == transfers[transfer_id] IN
    IF transfer.state \notin {"REQUESTED", "SUSPENDED"}
    THEN Answer(HTTPException("start", transfer_id, 400, "INVALID_STATE",
                              transfer.state, "REQUESTED"))
    ELSE /\ save_transfer(transfer_id,
            [transfer EXCEPT
                !.state = "STARTED",
                !.started_at = Now,
                !.state_history = Append(@, "STARTED")])
         /\ response' = Ok("start", transfer_id, "STARTED")
         /\ UNCHANGED <<negotiations, agreements, uuids>>

start_transfer(transfer_id) ==
    IF transfer_id \notin DOMAIN transfers
    THEN Answer(HTTPException("start", transfer_id, 404, "TRANSFER_NOT_FOUND", "", ""))
    ELSE LET transfer == transfers[transfer_id] IN
    IF transfer.state # "REQUESTED"
    THEN Answer(HTTPException("start", transfer_id, 400, "INVALID_STATE",
                              transfer.state, "REQUESTED"))
    ELSE /\ save_transfer(transfer_id,
            [transfer EXCEPT
                !.state = "STARTED",
                !.started_at = Now,
                !.state_history = Append(@, "STARTED")])
         /\ response' = Ok("start", transfer_id, "STARTED")
         /\ UNCHANGED <<negotiations, agreements, uuids>>

\* complete_transfer without its state guard.
complete_transfer_any_state(transfer_id, opened) ==
    IF transfer_id \notin DOMAIN transfers
    THEN Answer(HTTPException("complete", transfer_id, 404, "TRANSFER_NOT_FOUND", "", ""))
    ELSE LET transfer == transfers[transfer_id] IN
    LET data == get_asset_data(transfer.asset_id, opened) IN
    IF Falsy(data)
    THEN Answer(HTTPException("complete", transfer_id, 500, "DATA_NOT_AVAILABLE", "", ""))
    ELSE /\ save_transfer(transfer_id,
            [transfer EXCEPT
                !.state = "COMPLETED",
                !.completed_at = Now,
                !.data = data,
                !.state_history = Append(@, "COMPLETED")])
         /\ response' = Ok("complete", transfer_id, "COMPLETED")
         /\ UNCHANGED <<negotiations, agreements, uuids>>

\* complete_transfer without the `if not data` test.
complete_transfer_unchecked_data(transfer_id, opened) ==
    IF transfer_id \notin DOMAIN transfers
    THEN Answer(HTTPException("complete", transfer_id, 404, "TRANSFER_NOT_FOUND", "", ""))
    ELSE LET transfer == transfers[transfer_id] IN
    IF transfer.state # "STARTED"
    THEN Answer(HTTPException("complete", transfer_id, 400, "INVALID_STATE",
                              transfer.state, "STARTED"))
    ELSE LET data == get_asset_data(transfer.asset_id, opened) IN
         /\ save_transfer(transfer_id,
            [transfer EXCEPT
                !.state = "COMPLETED",
                !.completed_at = Now,
                !.data = data,
                !.state_history = Append(@, "COMPLETED")])
         /\ response' = Ok("complete", transfer_id, "COMPLETED")
         /\ UNCHANGED <<negotiations, agreements, uuids>>

complete_transfer(transfer_id, opened) ==
    IF transfer_id \notin DOMAIN transfers
    THEN Answer(HTTPException("complete", transfer_id, 404, "TRANSFER_NOT_FOUND", "", ""))
    ELSE LET transfer == transfers[transfer_id] IN
    IF transfer.state # "STARTED"
    THEN Answer(HTTPException("complete", transfer_id, 400, "INVALID_STATE",
                              transfer.state, "STARTED"))
    ELSE LET data == get_asset_data(transfer.asset_id, opened) IN
    IF Falsy(data)
    THEN Answer(HTTPException("complete", transfer_id, 500, "DATA_NOT_AVAILABLE", "", ""))
    ELSE /\ save_transfer(transfer_id,
            [transfer EXCEPT
                !.state = "COMPLETED",
                !.completed_at = Now,
                !.data = data,
                !.state_history = Append(@, "COMPLETED")])
         /\ response' = Ok("complete", transfer_id, "COMPLETED")
         /\ UNCHANGED <<negotiations, agreements, uuids>>

\* suspend_transfer that appends nothing to state_history.
suspend_transfer_unrecorded(transfer_id) ==
    IF transfer_id \notin DOMAIN transfers
    THEN Answer(HTTPException("suspend", transfer_id, 404, "TRANSFER_NOT_FOUND", "", ""))
    ELSE LET transfer == transfers[transfer_id] IN
    IF transfer.state # "STARTED"
    THEN Answer(HTTPException("suspend", transfer_id, 400, "INVALID_STATE",
                              transfer.state, ""))
    ELSE /\ save_transfer(transfer_id, [transfer EXCEPT !.state = "SUSPENDED"])
         /\ response' = Ok("suspend", transfer_id, "SUSPENDED")
         /\ UNCHANGED <<negotiations, agreements, uuids>>

suspend_transfer(transfer_id) ==
    IF transfer_id \notin DOMAIN transfers
    THEN Answer(HTTPException("suspend", transfer_id, 404, "TRANSFER_NOT_FOUND", "", ""))
    ELSE LET transfer == transfers[transfer_id] IN
    IF transfer.state # "STARTED"
    THEN Answer(HTTPException("suspend", transfer_id, 400, "INVALID_STATE",
                              transfer.state, ""))
    ELSE /\ save_transfer(transfer_id,
            [transfer EXCEPT
                !.state = "SUSPENDED",
                !.state_history = Append(@, "SUSPENDED")])
         /\ response' = Ok("suspend", transfer_id, "SUSPENDED")
         /\ UNCHANGED <<negotiations, agreements, uuids>>

\* terminate_transfer whose guard forgets COMPLETED.
terminate_transfer_completed(transfer_id) ==
    IF transfer_id \notin DOMAIN transfers
    THEN Answer(HTTPException("terminate_transfer", transfer_id, 404,
                              "TRANSFER_NOT_FOUND", "", ""))
    ELSE LET transfer == transfers[transfer_id] IN
    IF transfer.state \in {"TERMINATED"}
    THEN Answer(HTTPException("terminate_transfer", transfer_id, 400,
                              "INVALID_STATE", transfer.state, ""))
    ELSE /\ save_transfer(transfer_id,
            [transfer EXCEPT
                !.state = "TERMINATED",
                !.state_history = Append(@, "TERMINATED")])
         /\ response' = Ok("terminate_transfer", transfer_id, "TERMINATED")
         /\ UNCHANGED <<negotiations, agreements, uuids>>

terminate_transfer(transfer_id) ==
    IF transfer_id \notin DOMAIN transfers
    THEN Answer(HTTPException("terminate_transfer", transfer_id, 404,
                              "TRANSFER_NOT_FOUND", "", ""))
    ELSE LET transfer == transfers[transfer_id] IN
    IF transfer.state \in {"COMPLETED", "TERMINATED"}
    THEN Answer(HTTPException("terminate_transfer", transfer_id, 400,
                              "INVALID_STATE", transfer.state, ""))
    ELSE /\ save_transfer(transfer_id,
            [transfer EXCEPT
                !.state = "TERMINATED",
                !.state_history = Append(@, "TERMINATED")])
         /\ response' = Ok("terminate_transfer", transfer_id, "TERMINATED")
         /\ UNCHANGED <<negotiations, agreements, uuids>>

\* GET /api/transfers/{id}/data: the "data" of the payload it answers with.
transferred_data(transfer, opened) ==
    IF Falsy(transfer.data) THEN get_asset_data(transfer.asset_id, opened)
    ELSE transfer.data

\* get_transferred_data that serves a transfer in any state.
get_transferred_data_any_state(transfer_id, opened) ==
    IF transfer_id \notin DOMAIN transfers
    THEN Answer(HTTPException("data", transfer_id, 404, "TRANSFER_NOT_FOUND", "", ""))
    ELSE IF Falsy(transferred_data(transfers[transfer_id], opened))
    THEN Answer(HTTPException("data", transfer_id, 500, "DATA_NOT_AVAILABLE", "", ""))
    ELSE Answer(Ok("data", transfer_id, ""))

get_transferred_data(transfer_id, opened) ==
    IF transfer_id \notin DOMAIN transfers
    THEN Answer(HTTPException("data", transfer_id, 404, "TRANSFER_NOT_FOUND", "", ""))
    ELSE LET transfer == transfers[transfer_id] IN
    IF transfer.state # "COMPLETED"
    THEN Answer(HTTPException("data", transfer_id, 400, "TRANSFER_NOT_COMPLETED",
                              transfer.state, ""))
    ELSE IF Falsy(transferred_data(transfer, opened))
    THEN Answer(HTTPException("data", transfer_id, 500, "DATA_NOT_AVAILABLE", "", ""))
    ELSE Answer(Ok("data", transfer_id, ""))

-----------------------------------------------------------------------------
(* provider-connector/main.py *)

\* POST /api/reset
reset_demo ==
    /\ initialize_store
    /\ response' = Ok("reset", 0, "")
    /\ UNCHANGED uuids

-----------------------------------------------------------------------------
(* consumer-connector/store.py *)

CONSUMER_ID == "consumer-tierone-supplier"

S_EU == <<69, 85>>
S_IATF16949 == <<73, 65, 84, 70, 49, 54, 57, 52, 57>>

\* _store["identity"] as the consumer's initialize_store sets it.
IDENTITY ==
    [consumer_id |-> CONSUMER_ID,
     partner_type |-> Str(S_tier1_supplier),
     region |-> Str(S_EU),
     certifications |-> List(<<Str(S_TISAX), Str(S_ISO27001), Str(S_IATF16949)>>),
     purpose |-> Str(S_quality_analysis)]

\* The consumer's _store after initialize_store, without identity and caches.
EmptyConsumerStore ==
    [negotiations |-> <<>>, agreements |-> <<>>, transfers |-> <<>>,
     received_data |-> <<>>]

\* The consumer's save_negotiation, save_agreement, save_transfer and
\* save_received_data, as the store they leave.
SavedNegotiation(store, id, negotiation) ==
    [store EXCEPT !.negotiations = Put(@, id, negotiation)]

SavedAgreement(store, id, agreement) ==
    [store EXCEPT !.agreements = Put(@, id, agreement)]

SavedTransfer(store, id, transfer) ==
    [store EXCEPT !.transfers = Put(@, id, transfer)]

SavedReceivedData(store, transfer_id, data) ==
    [store EXCEPT !.received_data = Put(@, transfer_id, data)]

-----------------------------------------------------------------------------
(* The consumer's calls to the provider (httpx.AsyncClient) *)

\* The callers that can be inside a consumer handler at the same time.
Callers == {1, 2}

\* What the awaited call gave: nothing yet, httpx.ConnectError, or the
\* provider's response: its status, whether its body is JSON (the body of an
\* unhandled exception is plain text), and the fields the handlers read.
NoReply ==
    [kind |-> "none", status |-> 0, json |-> FALSE, state |-> "", id |-> 0,
     agreement_id |-> 0, asset_id |-> "", data |-> NoData]

ConnectError == [NoReply EXCEPT !.kind = "ConnectError"]

\* The provider's response r; a finalize response carries the id and the
\* asset of the agreement made, a data response carries the data.
HttpResponse(r, agreement_id, asset_id, data) ==
    [kind |-> "response", status |-> r.status,
     json |-> r.error # "Internal Server Error",
     state |-> r.state, id |-> r.id, agreement_id |-> agreement_id,
     asset_id |-> asset_id, data |-> data]

\* response.raise_for_status() raises httpx.HTTPStatusError.
IsError(reply) == reply.status >= 400

\* What a consumer handler answered its caller.
ConsumerResult(status_code, error, state) ==
    [status |-> status_code, error |-> error, state |-> state, data |-> NoData]

\* The answer of the consumer's data endpoint: the payload's "data".
DataResult(data) == [ConsumerResult(200, "", "COMPLETED") EXCEPT !.data = data]

NoResult == ConsumerResult(0, "", "")

\* An exception no handler catches: FastAPI answers 500.
Uncaught == ConsumerResult(500, "Internal Server Error", "")

\* except httpx.HTTPStatusError: the provider's status is passed on, with the
\* provider's JSON body; a body that is no JSON makes e.response.json() raise.
PROVIDER_ERROR(reply) ==
    IF reply.json THEN ConsumerResult(reply.status, "PROVIDER_ERROR", "")
    ELSE Uncaught

\* A caller outside any handler.
Idle ==
    [pc |-> "idle", op |-> "", id |-> 0, asset_id |-> "", attrs |-> <<>>,
     reply |-> NoReply, result |-> NoResult]

\* Caller c's handler has reached its await with this request to send.
Await(c, op, id, asset_id, attrs) ==
    calls' = [calls EXCEPT ![c] =
                [pc |-> "awaiting", op |-> op, id |-> id, asset_id |-> asset_id,
                 attrs |-> attrs, reply |-> NoReply, result |-> NoResult]]

\* Caller c's handler returns or raises: the caller has its answer.
Return(c, op, id, result) ==
    calls' = [calls EXCEPT ![c] =
                [pc |-> "idle", op |-> op, id |-> id, asset_id |-> "",
                 attrs |-> <<>>, reply |-> NoReply, result |-> result]]

InitConsumer ==
    /\ consumer_store = EmptyConsumerStore
    /\ calls = [c \in Callers |-> Idle]

-----------------------------------------------------------------------------
(* consumer-connector/negotiations.py *)

\* Python truthiness of a value: None, "" and [] are false.
Truthy(v) ==
    CASE v.t = "none" -> FALSE
      [] v.t = "str" -> v.s # <<>>
      [] v.t = "list" -> v.l # <<>>
      [] OTHER -> v.n # 0

\* IdentityOverride: each field optional; no body at all reads the same.
IdentityOverride(partner_type, region, certifications, purpose) ==
    [partner_type |-> partner_type, region |-> region,
     certifications |-> certifications, purpose |-> purpose]

NoOverride == IdentityOverride(None, None, None, None)

\* The consumer_attributes a handler sends: the identity, each attribute
\* replaced by the override's when that is set.
ConsumerAttributes(override) ==
    [k \in {"partner_type", "region", "certification", "purpose"} |->
        CASE k = "partner_type" ->
                IF Truthy(override.partner_type) THEN override.partner_type
                ELSE IDENTITY.partner_type
          [] k = "region" ->
                IF Truthy(override.region) THEN override.region ELSE IDENTITY.region
          [] k = "certification" ->
                IF Truthy(override.certifications) THEN override.certifications
                ELSE IDENTITY.certifications
          [] k = "purpose" ->
                IF Truthy(override.purpose) THEN override.purpose
                ELSE IDENTITY.purpose]

\* An entry of a local record's "history": the action and the status of the
\* provider response kept with it.
HistoryItem(action, reply) == [action |-> action, response |-> reply.status]

\* provider_response.get("policy_evaluation") of an offer response.
PolicyEvaluationOf(reply) ==
    CASE reply.state = "OFFERED" -> "allowed"
      [] reply.state = "TERMINATED" -> "denied"
      [] OTHER -> "None"

\* POST /api/negotiations, up to the await.
consumer_initiate_negotiation(c, asset_id) ==
    /\ Await(c, "initiate_negotiation", 0, asset_id, ConsumerAttributes(NoOverride))
    /\ UNCHANGED consumer_store

\* POST /api/negotiations, from the provider's response on.
consumer_initiate_negotiation_resumed(c) ==
    LET reply == calls[c].reply IN
    IF reply.kind = "ConnectError"
    THEN /\ Return(c, "initiate_negotiation", 0,
                   ConsumerResult(503, "PROVIDER_UNREACHABLE", ""))
         /\ UNCHANGED consumer_store
    ELSE IF IsError(reply)
    THEN /\ Return(c, "initiate_negotiation", 0, PROVIDER_ERROR(reply))
         /\ UNCHANGED consumer_store
    ELSE LET provider_neg_id == reply.id
             negotiation ==
                [state |-> "REQUESTED",
                 provider_negotiation_id |-> provider_neg_id,
                 provider_state |-> reply.state,
                 asset_id |-> calls[c].asset_id,
                 agreement_id |-> 0,
                 policy_evaluation |-> "None",
                 history |-> <<HistoryItem("INITIATED", reply)>>]
         IN /\ consumer_store' =
                  SavedNegotiation(consumer_store, provider_neg_id, negotiation)
            /\ Return(c, "initiate_negotiation", provider_neg_id,
                      ConsumerResult(200, "", "REQUESTED"))

\* GET /api/negotiations/{id}, up to the await.
consumer_get_negotiation_status(c, negotiation_id) ==
    /\ UNCHANGED consumer_store
    /\ IF negotiation_id \notin DOMAIN consumer_store.negotiations
       THEN Return(c, "status", negotiation_id,
                   ConsumerResult(404, "NEGOTIATION_NOT_FOUND", ""))
       ELSE Await(c, "status", negotiation_id, "", <<>>)

\* GET /api/negotiations/{id}, from the provider's response on: a 200
\* response refreshes provider_state on the record the handler fetched before
\* the await, which is the record of the store; any exception is swallowed;
\* the record is returned.
consumer_get_negotiation_status_resumed(c) ==
    LET reply == calls[c].reply
        negotiation_id == calls[c].id
        negotiation == consumer_store.negotiations[negotiation_id]
        refreshed ==
            IF reply.kind = "response" /\ reply.status = 200 /\ reply.json
            THEN [negotiation EXCEPT !.provider_state = reply.state]
            ELSE negotiation
    IN /\ consumer_store' = SavedNegotiation(consumer_store, negotiation_id, refreshed)
       /\ Return(c, "status", negotiation_id, ConsumerResult(200, "", refreshed.state))

\* POST /api/negotiations/{id}/request-offer, up to the await.
request_provider_offer(c, negotiation_id, override) ==
    /\ UNCHANGED consumer_store
    /\ IF negotiation_id \notin DOMAIN consumer_store.negotiations
       THEN Return(c, "request-offer", negotiation_id,
                   ConsumerResult(404, "NEGOTIATION_NOT_FOUND", ""))
       ELSE Await(c, "request-offer", negotiation_id, "", ConsumerAttributes(override))

\* request-offer from the provider's response on: the response is not checked
\* for its status, and a body without "dspace:state" reads as "UNKNOWN".
request_provider_offer_resumed(c) ==
    LET reply == calls[c].reply
        negotiation_id == calls[c].id
        negotiation == consumer_store.negotiations[negotiation_id]
    IN IF reply.kind = "ConnectError" \/ ~reply.json
       THEN /\ Return(c, "request-offer", negotiation_id, Uncaught)
            /\ UNCHANGED consumer_store
       ELSE LET new_state == IF reply.state = "" THEN "UNKNOWN" ELSE reply.state IN
            /\ consumer_store' =
                  SavedNegotiation(consumer_store, negotiation_id,
                     [negotiation EXCEPT
                         !.state = new_state,
                         !.provider_state = new_state,
                         !.policy_evaluation = PolicyEvaluationOf(reply),
                         !.history = Append(@, HistoryItem("OFFER_REQUESTED", reply))])
            /\ Return(c, "request-offer", negotiation_id,
                      ConsumerResult(200, "", new_state))

\* POST /api/negotiations/{id}/agree, up to the await.
agree_to_offer(c, negotiation_id) ==
    /\ UNCHANGED consumer_store
    /\ IF negotiation_id \notin DOMAIN consumer_store.negotiations
       THEN Return(c, "agree", negotiation_id,
                   ConsumerResult(404, "NEGOTIATION_NOT_FOUND", ""))
       ELSE IF consumer_store.negotiations[negotiation_id].state # "OFFERED"
       THEN Return(c, "agree", negotiation_id,
                   ConsumerResult(400, "INVALID_STATE", ""))
       ELSE Await(c, "agree", negotiation_id, "", <<>>)

\* The code agree and verify share after the await: raise_for_status,
\* then the local record moves to new_state and gets one history entry.
\* MirrorNegotiation that moves the local record whatever status came back.
MirrorNegotiationUnchecked(c, op, new_state) ==
    LET reply == calls[c].reply
        negotiation_id == calls[c].id
        negotiation == consumer_store.negotiations[negotiation_id]
    IN IF reply.kind = "ConnectError"
       THEN /\ Return(c, op, negotiation_id, Uncaught)
            /\ UNCHANGED consumer_store
       ELSE /\ consumer_store' =
                  SavedNegotiation(consumer_store, negotiation_id,
                     [negotiation EXCEPT
                         !.state = new_state,
                         !.provider_state = reply.state,
                         !.history = Append(@, HistoryItem(new_state, reply))])
            /\ Return(c, op, negotiation_id, ConsumerResult(200, "", new_state))

MirrorNegotiation(c, op, new_state) ==
    LET reply == calls[c].reply
        negotiation_id == calls[c].id
        negotiation == consumer_store.negotiations[negotiation_id]
    IN IF reply.kind = "ConnectError"
       THEN /\ Return(c, op, negotiation_id, Uncaught)
            /\ UNCHANGED consumer_store
       ELSE IF IsError(reply)
       THEN /\ Return(c, op, negotiation_id, PROVIDER_ERROR(reply))
            /\ UNCHANGED consumer_store
       ELSE /\ consumer_store' =
                  SavedNegotiation(consumer_store, negotiation_id,
                     [negotiation EXCEPT
                         !.state = new_state,
                         !.provider_state = reply.state,
                         !.history = Append(@, HistoryItem(new_state, reply))])
            /\ Return(c, op, negotiation_id, ConsumerResult(200, "", new_state))

agree_to_offer_resumed(c) == MirrorNegotiation(c, "agree", "AGREED")

\* POST /api/negotiations/{id}/verify, up to the await: no test of the state.
consumer_verify_agreement(c, negotiation_id) ==
    /\ UNCHANGED consumer_store
    /\ IF negotiation_id \notin DOMAIN consumer_store.negotiations
       THEN Return(c, "verify", negotiation_id,
                   ConsumerResult(404, "NEGOTIATION_NOT_FOUND", ""))
       ELSE Await(c, "verify", negotiation_id, "", <<>>)

consumer_verify_agreement_resumed(c) == MirrorNegotiation(c, "verify", "VERIFIED")

\* POST /api/negotiations/{id}/finalize, up to the await: no test of the state.
finalize_negotiation(c, negotiation_id) ==
    /\ UNCHANGED consumer_store
    /\ IF negotiation_id \notin DOMAIN consumer_store.negotiations
       THEN Return(c, "finalize", negotiation_id,
                   ConsumerResult(404, "NEGOTIATION_NOT_FOUND", ""))
       ELSE Await(c, "finalize", negotiation_id, "", <<>>)

\* finalize from the provider's response on, keeping no agreement locally.
finalize_negotiation_resumed_keeping_none(c) ==
    LET reply == calls[c].reply
        negotiation_id == calls[c].id
        negotiation == consumer_store.negotiations[negotiation_id]
    IN IF reply.kind = "ConnectError"
       THEN /\ Return(c, "finalize", negotiation_id, Uncaught)
            /\ UNCHANGED consumer_store
       ELSE IF IsError(reply)
       THEN /\ Return(c, "finalize", negotiation_id, PROVIDER_ERROR(reply))
            /\ UNCHANGED consumer_store
       ELSE /\ consumer_store' =
                  SavedNegotiation(consumer_store, negotiation_id,
                     [negotiation EXCEPT
                         !.state = "FINALIZED",
                         !.provider_state = reply.state,
                         !.agreement_id = reply.agreement_id,
                         !.history = Append(@, HistoryItem("FINALIZED", reply))])
            /\ Return(c, "finalize", negotiation_id,
                      ConsumerResult(200, "", "FINALIZED"))

\* finalize from the provider's response on: the agreement of the response is
\* stored locally, then the local record moves to FINALIZED.
finalize_negotiation_resumed(c) ==
    LET reply == calls[c].reply
        negotiation_id == calls[c].id
        negotiation == consumer_store.negotiations[negotiation_id]
        agreement_id == reply.agreement_id
        agreement ==
            [negotiation_id |-> negotiation_id,
             asset_id |-> reply.asset_id,
             status |-> "ACTIVE"]
        with_agreement ==
            IF agreement_id # 0
            THEN SavedAgreement(consumer_store, agreement_id, agreement)
            ELSE consumer_store
    IN IF reply.kind = "ConnectError"
       THEN /\ Return(c, "finalize", negotiation_id, Uncaught)
            /\ UNCHANGED consumer_store
       ELSE IF IsError(reply)
       THEN /\ Return(c, "finalize", negotiation_id, PROVIDER_ERROR(reply))
            /\ UNCHANGED consumer_store
       ELSE /\ consumer_store' =
                  SavedNegotiation(with_agreement, negotiation_id,
                     [negotiation EXCEPT
                         !.state = "FINALIZED",
                         !.provider_state = reply.state,
                         !.agreement_id = agreement_id,
                         !.history = Append(@, HistoryItem("FINALIZED", reply))])
            /\ Return(c, "finalize", negotiation_id,
                      ConsumerResult(200, "", "FINALIZED"))

-----------------------------------------------------------------------------
(* consumer-connector/transfers.py *)

\* POST /api/transfers, up to the await: the agreement must be known locally.
consumer_initiate_transfer(c, agreement_id) ==
    /\ UNCHANGED consumer_store
    /\ IF agreement_id \notin DOMAIN consumer_store.agreements
       THEN Return(c, "initiate_transfer", agreement_id,
                   ConsumerResult(404, "AGREEMENT_NOT_FOUND", ""))
       ELSE Await(c, "initiate_transfer", agreement_id, "", <<>>)

\* POST /api/transfers, from the provider's response on.
consumer_initiate_transfer_resumed(c) ==
    LET reply == calls[c].reply
        agreement_id == calls[c].id
    IN IF reply.kind = "ConnectError"
       THEN /\ Return(c, "initiate_transfer", agreement_id,
                      ConsumerResult(503, "PROVIDER_UNREACHABLE", ""))
            /\ UNCHANGED consumer_store
       ELSE IF IsError(reply)
       THEN /\ Return(c, "initiate_transfer", agreement_id, PROVIDER_ERROR(reply))
            /\ UNCHANGED consumer_store
       ELSE LET provider_transfer_id == reply.id
                transfer ==
                   [state |-> "REQUESTED",
                    provider_transfer_id |-> provider_transfer_id,
                    agreement_id |-> agreement_id,
                    asset_id |-> consumer_store.agreements[agreement_id].asset_id,
                    provider_state |-> reply.state,
                    has_data |-> FALSE,
                    completed_at |-> Unset,
                    history |-> <<HistoryItem("INITIATED", reply)>>]
            IN /\ consumer_store' =
                     SavedTransfer(consumer_store, provider_transfer_id, transfer)
               /\ Return(c, "initiate_transfer", provider_transfer_id,
                         ConsumerResult(200, "", "REQUESTED"))

\* POST /api/transfers/{id}/start, up to the await: no test of the state.
consumer_start_transfer(c, transfer_id) ==
    /\ UNCHANGED consumer_store
    /\ IF transfer_id \notin DOMAIN consumer_store.transfers
       THEN Return(c, "start", transfer_id,
                   ConsumerResult(404, "TRANSFER_NOT_FOUND", ""))
       ELSE Await(c, "start", transfer_id, "", <<>>)

\* start from the provider's response on.
consumer_start_transfer_resumed(c) ==
    LET reply == calls[c].reply
        transfer_id == calls[c].id
        transfer == consumer_store.transfers[transfer_id]
    IN IF reply.kind = "ConnectError"
       THEN /\ Return(c, "start", transfer_id, Uncaught)
            /\ UNCHANGED consumer_store
       ELSE IF IsError(reply)
       THEN /\ Return(c, "start", transfer_id, PROVIDER_ERROR(reply))
            /\ UNCHANGED consumer_store
       ELSE /\ consumer_store' =
                  SavedTransfer(consumer_store, transfer_id,
                     [transfer EXCEPT
                         !.state = "STARTED",
                         !.provider_state = reply.state,
                         !.history = Append(@, HistoryItem("STARTED", reply))])
            /\ Return(c, "start", transfer_id, ConsumerResult(200, "", "STARTED"))

\* POST /api/transfers/{id}/complete, up to the first await.
consumer_complete_transfer(c, transfer_id) ==
    /\ UNCHANGED consumer_store
    /\ IF transfer_id \notin DOMAIN consumer_store.transfers
       THEN Return(c, "complete", transfer_id,
                   ConsumerResult(404, "TRANSFER_NOT_FOUND", ""))
       ELSE Await(c, "complete", transfer_id, "", <<>>)

\* complete between its two awaits: the provider has answered the complete
\* call, the data is asked for next.
consumer_complete_transfer_resumed(c) ==
    LET reply == calls[c].reply
        transfer_id == calls[c].id
    IN /\ UNCHANGED consumer_store
       /\ IF reply.kind = "ConnectError"
          THEN Return(c, "complete", transfer_id, Uncaught)
          ELSE IF IsError(reply)
          THEN Return(c, "complete", transfer_id, PROVIDER_ERROR(reply))
          ELSE calls' = [calls EXCEPT ![c].pc = "awaiting_data", ![c].reply = NoReply]

\* complete from the provider's data response on.
consumer_complete_transfer_received(c) ==
    LET reply == calls[c].reply
        transfer_id == calls[c].id
        transfer == consumer_store.transfers[transfer_id]
    IN IF reply.kind = "ConnectError"
       THEN /\ Return(c, "complete", transfer_id, Uncaught)
            /\ UNCHANGED consumer_store
       ELSE IF IsError(reply)
       THEN /\ Return(c, "complete", transfer_id, PROVIDER_ERROR(reply))
            /\ UNCHANGED consumer_store
       ELSE /\ consumer_store' =
                  SavedTransfer(
                     SavedReceivedData(consumer_store, transfer_id, reply.data),
                     transfer_id,
                     [transfer EXCEPT
                         !.state = "COMPLETED",
                         !.provider_state = "COMPLETED",
                         !.completed_at = Now,
                         !.has_data = TRUE,
                         !.history = Append(@, HistoryItem("COMPLETED", reply))])
            /\ Return(c, "complete", transfer_id,
                      ConsumerResult(200, "", "COMPLETED"))

\* GET /api/transfers/{id}/data: the data received for a transfer, once the
\* local record is COMPLETED.
get_transfer_data(c, transfer_id) ==
    /\ UNCHANGED consumer_store
    /\ IF transfer_id \notin DOMAIN consumer_store.transfers
       THEN Return(c, "data", transfer_id,
                   ConsumerResult(404, "TRANSFER_NOT_FOUND", ""))
       ELSE IF consumer_store.transfers[transfer_id].state # "COMPLETED"
       THEN Return(c, "data", transfer_id,
                   ConsumerResult(400, "TRANSFER_NOT_COMPLETED", ""))
       ELSE IF \/ transfer_id \notin DOMAIN consumer_store.received_data
               \/ Falsy(consumer_store.received_data[transfer_id])
       THEN Return(c, "data", transfer_id, ConsumerResult(404, "DATA_NOT_FOUND", ""))
       ELSE Return(c, "data", transfer_id,
                   DataResult(consumer_store.received_data[transfer_id]))

-----------------------------------------------------------------------------
(* The two connectors together: the consumer's endpoints, the provider
   handling what the consumer sends it, and the network. *)

\* The request of an awaiting caller reaches the provider, whose handler runs
\* and whose response comes back.
callPeer(c, opened) ==
    LET call == calls[c] IN
    /\ call.pc \in {"awaiting", "awaiting_data"}
    /\ IF call.pc = "awaiting_data" THEN get_transferred_data(call.id, opened)
       ELSE CASE call.op = "initiate_negotiation" ->
                    initiate_negotiation(IDENTITY.consumer_id, call.asset_id,
                                         Attrs(call.attrs))
              [] call.op = "request-offer" ->
                    provider_offer(call.id, NegotiationAction(Attrs(call.attrs)))
              [] call.op = "agree" -> consumer_agree(call.id)
              [] call.op = "verify" -> verify_agreement(call.id)
              [] call.op = "finalize" -> finalize_agreement(call.id)
              [] call.op = "initiate_transfer" -> initiate_transfer(call.id)
              [] call.op = "start" -> start_transfer(call.id)
              [] call.op = "complete" -> complete_transfer(call.id, opened)
              [] call.op = "status" -> get_negotiation_status(call.id)
    /\ LET made == call.op = "finalize" /\ response'.status = 200
           got == call.pc = "awaiting_data" /\ response'.status = 200
       IN calls' = [calls EXCEPT
             ![c].pc = IF call.pc = "awaiting" THEN "replied" ELSE "replied_data",
             ![c].reply =
                HttpResponse(response',
                    IF made THEN negotiations'[call.id].agreement_id ELSE 0,
                    IF made THEN agreements'[negotiations'[call.id].agreement_id].asset_id
                    ELSE "",
                    IF got THEN transferred_data(transfers[call.id], opened)
                    ELSE NoData)]
    /\ UNCHANGED consumer_store

\* The request of an awaiting caller does not reach the provider.
ConnectionFails(c) ==
    /\ calls[c].pc \in {"awaiting", "awaiting_data"}
    /\ calls' = [calls EXCEPT
          ![c].pc = IF calls[c].pc = "awaiting" THEN "replied" ELSE "replied_data",
          ![c].reply = ConnectError]
    /\ UNCHANGED <<consumer_store, store_vars>>

\* The handler a caller is in goes on from the reply it awaited.
Resumed(c) ==
    IF calls[c].pc = "replied_data" THEN consumer_complete_transfer_received(c)
    ELSE /\ calls[c].pc = "replied"
         /\ CASE calls[c].op = "initiate_negotiation" ->
                    consumer_initiate_negotiation_resumed(c)
              [] calls[c].op = "request-offer" -> request_provider_offer_resumed(c)
              [] calls[c].op = "agree" -> agree_to_offer_resumed(c)
              [] calls[c].op = "verify" -> consumer_verify_agreement_resumed(c)
              [] calls[c].op = "finalize" -> finalize_negotiation_resumed(c)
              [] calls[c].op = "initiate_transfer" ->
                    consumer_initiate_transfer_resumed(c)
              [] calls[c].op = "start" -> consumer_start_transfer_resumed(c)
              [] calls[c].op = "complete" -> consumer_complete_transfer_resumed(c)
              [] calls[c].op = "status" -> consumer_get_negotiation_status_resumed(c)

-----------------------------------------------------------------------------
(* The provider as a state machine: one action per endpoint, its request
   drawn from small sets of inputs. *)

\* Request contexts: Scenario A's, Scenario B's, one that satisfies the policy
\* of every asset, and one that asks for a prohibited action.
ContextTier1 == [k \in {"partner_type"} |-> Str(S_tier1_supplier)]

ContextCostReduction ==
    [k \in {"partner_type", "purpose"} |->
        IF k = "partner_type" THEN Str(S_tier1_supplier) ELSE Str(S_cost_reduction)]

ContextQualified ==
    [k \in {"partner_type", "purpose", "certification"} |->
        CASE k = "partner_type" -> Str(S_tier1_supplier)
          [] k = "purpose" -> Str(S_quality_analysis)
          [] k = "certification" -> List(<<Str(S_TISAX)>>)]

ContextDistribute ==
    [k \in {"partner_type", "action"} |->
        IF k = "partner_type" THEN Str(S_tier1_supplier) ELSE Str(S_DISTRIBUTE)]

ConsumerIds == {"consumer-tierone"}
AssetIds == {"part-catalog-2024", "quality-metrics-q4", "no-such-asset"}
RequestAttributes == {NoneAttrs, Attrs(ContextQualified)}
OfferActions ==
    {NoAction, NegotiationAction(NoneAttrs),
     NegotiationAction(Attrs(ContextCostReduction))}
NegotiationIds == 1..MaxNegotiations
AgreementIds == 1..MaxNegotiations
TransferIds == 1..MaxTransfers

InitStore ==
    /\ negotiations = <<>>
    /\ agreements = <<>>
    /\ transfers = <<>>
    /\ uuids = [kind \in {"negotiation", "agreement", "transfer"} |-> 0]
    /\ response = NoResponse

\* The evaluator harness at rest.
NotEvaluated ==
    [raised |-> FALSE, allowed |-> FALSE, reason |-> "not evaluated",
     reason_action |-> <<>>, evaluated_constraints |-> <<>>]

InitHarness ==
    /\ ev_policy = Policy("", <<>>, <<>>)
    /\ ev_context = <<>>
    /\ ev_result = NotEvaluated

Init == InitStore /\ InitHarness /\ InitConsumer

InitiateNegotiation ==
    /\ uuids["negotiation"] < MaxNegotiations
    /\ \E consumer_id \in ConsumerIds, asset_id \in AssetIds,
          consumer_attributes \in RequestAttributes :
            initiate_negotiation(consumer_id, asset_id, consumer_attributes)
    /\ UNCHANGED <<ev_vars, consumer_vars>>

ProviderOffer ==
    /\ \E negotiation_id \in NegotiationIds, action \in OfferActions :
            provider_offer(negotiation_id, action)
    /\ UNCHANGED <<ev_vars, consumer_vars>>

ConsumerAgree ==
    /\ \E negotiation_id \in NegotiationIds : consumer_agree(negotiation_id)
    /\ UNCHANGED <<ev_vars, consumer_vars>>

VerifyAgreement ==
    /\ \E negotiation_id \in NegotiationIds : verify_agreement(negotiation_id)
    /\ UNCHANGED <<ev_vars, consumer_vars>>

FinalizeAgreement ==
    /\ \E negotiation_id \in NegotiationIds : finalize_agreement(negotiation_id)
    /\ UNCHANGED <<ev_vars, consumer_vars>>

TerminateNegotiation ==
    /\ \E negotiation_id \in NegotiationIds : terminate_negotiation(negotiation_id)
    /\ UNCHANGED <<ev_vars, consumer_vars>>

InitiateTransfer ==
    /\ uuids["transfer"] < MaxTransfers
    /\ \E agreement_id \in AgreementIds : initiate_transfer(agreement_id)
    /\ UNCHANGED <<ev_vars, consumer_vars>>

StartTransfer ==
    /\ \E transfer_id \in TransferIds : start_transfer(transfer_id)
    /\ UNCHANGED <<ev_vars, consumer_vars>>

CompleteTransfer ==
    /\ \E transfer_id \in TransferIds, opened \in FileOutcomes :
            complete_transfer(transfer_id, opened)
    /\ UNCHANGED <<ev_vars, consumer_vars>>

SuspendTransfer ==
    /\ \E transfer_id \in TransferIds : suspend_transfer(transfer_id)
    /\ UNCHANGED <<ev_vars, consumer_vars>>

TerminateTransfer ==
    /\ \E transfer_id \in TransferIds : terminate_transfer(transfer_id)
    /\ UNCHANGED <<ev_vars, consumer_vars>>

ResetDemo == reset_demo /\ UNCHANGED <<ev_vars, consumer_vars>>

Next ==
    \/ InitiateNegotiation
    \/ ProviderOffer
    \/ ConsumerAgree
    \/ VerifyAgreement
    \/ FinalizeAgreement
    \/ TerminateNegotiation
    \/ InitiateTransfer
    \/ StartTransfer
    \/ CompleteTransfer
    \/ SuspendTransfer
    \/ TerminateTransfer
    \/ ResetDemo

Spec == Init /\ [][Next]_vars

-----------------------------------------------------------------------------
(* The consumer and the provider as one state machine: one action per
   consumer endpoint (its code up to the await), the provider answering a
   request, a request failing to connect, and a handler resuming. *)

\* How many request-offer calls a negotiation is given.
MaxOfferRequests == 2

ConsumerAssetIds == {"quality-metrics-q4", "no-such-asset"}

\* No override, and one that changes the purpose to one the policy refuses.
Overrides == {NoOverride, IdentityOverride(None, None, None, Str(S_cost_reduction))}

\* The callers inside the handler of `op`.
Pending(op) == {c \in Callers : calls[c].pc # "idle" /\ calls[c].op = op}

\* The request-offer calls a local negotiation has recorded.
OfferRequests(negotiation_id) ==
    IF negotiation_id \notin DOMAIN consumer_store.negotiations THEN {}
    ELSE {i \in DOMAIN consumer_store.negotiations[negotiation_id].history :
            consumer_store.negotiations[negotiation_id].history[i].action =
                "OFFER_REQUESTED"}

ConsumerInitiateNegotiation ==
    /\ \E c \in Callers, asset_id \in ConsumerAssetIds :
          /\ calls[c].pc = "idle"
          /\ uuids["negotiation"] + Cardinality(Pending("initiate_negotiation"))
                < MaxNegotiations
          /\ consumer_initiate_negotiation(c, asset_id)
    /\ UNCHANGED <<store_vars, ev_vars>>

RequestProviderOffer ==
    /\ \E c \in Callers, negotiation_id \in NegotiationIds, override \in Overrides :
          /\ calls[c].pc = "idle"
          /\ Cardinality(OfferRequests(negotiation_id))
                + Cardinality(Pending("request-offer")) < MaxOfferRequests
          /\ request_provider_offer(c, negotiation_id, override)
    /\ UNCHANGED <<store_vars, ev_vars>>

AgreeToOffer ==
    /\ \E c \in Callers, negotiation_id \in NegotiationIds :
          calls[c].pc = "idle" /\ agree_to_offer(c, negotiation_id)
    /\ UNCHANGED <<store_vars, ev_vars>>

ConsumerVerifyAgreement ==
    /\ \E c \in Callers, negotiation_id \in NegotiationIds :
          calls[c].pc = "idle" /\ consumer_verify_agreement(c, negotiation_id)
    /\ UNCHANGED <<store_vars, ev_vars>>

FinalizeNegotiation ==
    /\ \E c \in Callers, negotiation_id \in NegotiationIds :
          calls[c].pc = "idle" /\ finalize_negotiation(c, negotiation_id)
    /\ UNCHANGED <<store_vars, ev_vars>>

ConsumerInitiateTransfer ==
    /\ \E c \in Callers, agreement_id \in AgreementIds :
          /\ calls[c].pc = "idle"
          /\ uuids["transfer"] + Cardinality(Pending("initiate_transfer"))
                < MaxTransfers
          /\ consumer_initiate_transfer(c, agreement_id)
    /\ UNCHANGED <<store_vars, ev_vars>>

ConsumerStartTransfer ==
    /\ \E c \in Callers, transfer_id \in TransferIds :
          calls[c].pc = "idle" /\ consumer_start_transfer(c, transfer_id)
    /\ UNCHANGED <<store_vars, ev_vars>>

ConsumerCompleteTransfer ==
    /\ \E c \in Callers, transfer_id \in TransferIds :
          calls[c].pc = "idle" /\ consumer_complete_transfer(c, transfer_id)
    /\ UNCHANGED <<store_vars, ev_vars>>

PeerAnswers ==
    /\ \E c \in Callers, opened \in FileOutcomes : callPeer(c, opened)
    /\ UNCHANGED ev_vars

PeerUnreachable ==
    /\ \E c \in Callers : ConnectionFails(c)
    /\ UNCHANGED ev_vars

Resume ==
    /\ \E c \in Callers : Resumed(c)
    /\ UNCHANGED <<store_vars, ev_vars>>

NextConsumer ==
    \/ ConsumerInitiateNegotiation
    \/ RequestProviderOffer
    \/ AgreeToOffer
    \/ ConsumerVerifyAgreement
    \/ FinalizeNegotiation
    \/ ConsumerInitiateTransfer
    \/ ConsumerStartTransfer
    \/ ConsumerCompleteTransfer
    \/ PeerAnswers
    \/ PeerUnreachable
    \/ Resume

SpecConsumer == Init /\ [][NextConsumer]_vars

-----------------------------------------------------------------------------
(* The data endpoints: one consumer caller goes through negotiation and
   transfer while the provider's transfer endpoints are also called directly,
   so that its transfers reach every state, and both connectors are asked for
   the data of a transfer at any time. *)

\* GET /api/transfers/{id}/data on the provider.
GetTransferredData ==
    /\ \E transfer_id \in TransferIds, opened \in FileOutcomes :
          get_transferred_data(transfer_id, opened)
    /\ UNCHANGED <<ev_vars, consumer_vars>>

\* GET /api/transfers/{id}/data on the consumer.
GetTransferData ==
    /\ \E c \in Callers, transfer_id \in TransferIds :
          calls[c].pc = "idle" /\ get_transfer_data(c, transfer_id)
    /\ UNCHANGED <<store_vars, ev_vars>>

\* Only the first caller is at work.
OneCaller == calls'[2] = calls[2]

NextData ==
    \/ NextConsumer /\ OneCaller
    \/ GetTransferData /\ OneCaller
    \/ GetTransferredData
    \/ StartTransfer
    \/ SuspendTransfer
    \/ TerminateTransfer

SpecData == Init /\ [][NextData]_vars

-----------------------------------------------------------------------------
(* One caller that keeps repeating the consumer's complete call: a call that
   is awaited is answered once the provider can be reached, a handler whose
   reply has come goes on, and the caller makes the complete call again and
   again. *)

NextRetry ==
    \/ ConsumerInitiateNegotiation /\ OneCaller
    \/ RequestProviderOffer /\ OneCaller
    \/ AgreeToOffer /\ OneCaller
    \/ ConsumerVerifyAgreement /\ OneCaller
    \/ FinalizeNegotiation /\ OneCaller
    \/ ConsumerInitiateTransfer /\ OneCaller
    \/ ConsumerStartTransfer /\ OneCaller
    \/ ConsumerCompleteTransfer /\ OneCaller
    \/ PeerAnswers /\ OneCaller
    \/ PeerUnreachable /\ OneCaller
    \/ Resume /\ OneCaller

SpecRetry ==
    /\ Init
    /\ [][NextRetry]_vars
    /\ SF_vars(ConsumerCompleteTransfer /\ OneCaller)
    /\ WF_vars(PeerAnswers /\ OneCaller)
    /\ WF_vars(Resume /\ OneCaller)

-----------------------------------------------------------------------------
(* A status read beside a transition: the first caller takes a negotiation
   through its transitions while the second caller reads its status, each
   call awaiting the provider on a connection of its own. *)

\* Only the second caller is at work.
OtherCaller == calls'[1] = calls[1]

\* GET /api/negotiations/{id} on the consumer.
ConsumerGetNegotiationStatus ==
    /\ \E c \in Callers, negotiation_id \in NegotiationIds :
          calls[c].pc = "idle" /\ consumer_get_negotiation_status(c, negotiation_id)
    /\ UNCHANGED <<store_vars, ev_vars>>

NextStatus ==
    \/ ConsumerInitiateNegotiation /\ OneCaller
    \/ RequestProviderOffer /\ OneCaller
    \/ AgreeToOffer /\ OneCaller
    \/ ConsumerVerifyAgreement /\ OneCaller
    \/ FinalizeNegotiation /\ OneCaller
    \/ ConsumerGetNegotiationStatus /\ OtherCaller
    \/ PeerAnswers
    \/ PeerUnreachable
    \/ Resume

SpecStatus == Init /\ [][NextStatus]_vars

-----------------------------------------------------------------------------
(* The provider with several negotiations and transfers side by side: every
   endpoint that names an id is called on any of them, in any order. *)

\* Bound of this specification: how many negotiations, and how many
\* transfers, are ever created.
MaxIds == 2

Ids == 1..MaxIds

NextIds ==
    \/ /\ uuids["negotiation"] < MaxIds
       /\ \E consumer_attributes \in RequestAttributes :
             initiate_negotiation("consumer-tierone", "quality-metrics-q4",
                                  consumer_attributes)
       /\ UNCHANGED <<ev_vars, consumer_vars>>
    \/ /\ \E negotiation_id \in Ids : provider_offer(negotiation_id, NoAction)
       /\ UNCHANGED <<ev_vars, consumer_vars>>
    \/ /\ \E negotiation_id \in Ids : consumer_agree(negotiation_id)
       /\ UNCHANGED <<ev_vars, consumer_vars>>
    \/ /\ \E negotiation_id \in Ids : verify_agreement(negotiation_id)
       /\ UNCHANGED <<ev_vars, consumer_vars>>
    \/ /\ \E negotiation_id \in Ids : finalize_agreement(negotiation_id)
       /\ UNCHANGED <<ev_vars, consumer_vars>>
    \/ /\ \E negotiation_id \in Ids : terminate_negotiation(negotiation_id)
       /\ UNCHANGED <<ev_vars, consumer_vars>>
    \/ /\ uuids["transfer"] < MaxIds
       /\ \E agreement_id \in Ids : initiate_transfer(agreement_id)
       /\ UNCHANGED <<ev_vars, consumer_vars>>
    \/ /\ \E transfer_id \in Ids : start_transfer(transfer_id)
       /\ UNCHANGED <<ev_vars, consumer_vars>>
    \/ /\ \E transfer_id \in Ids : complete_transfer(transfer_id, "document")
       /\ UNCHANGED <<ev_vars, consumer_vars>>
    \/ /\ \E transfer_id \in Ids : suspend_transfer(transfer_id)
       /\ UNCHANGED <<ev_vars, consumer_vars>>
    \/ /\ \E transfer_id \in Ids : terminate_transfer(transfer_id)
       /\ UNCHANGED <<ev_vars, consumer_vars>>

SpecIds == Init /\ [][NextIds]_vars

-----------------------------------------------------------------------------
(* Properties of the provider's negotiation and transfer state machines *)

NegotiationOps == {"offer", "agree", "verify", "finalize", "terminate"}
TerminalNegotiationStates == {"FINALIZED", "TERMINATED"}

\* The edges of the negotiation graph of section 4.2.
NegotiationEdges ==
    {<<"REQUESTED", "OFFERED">>, <<"OFFERED", "AGREED">>,
     <<"AGREED", "VERIFIED">>, <<"VERIFIED", "FINALIZED">>} \cup
    {<<s, "TERMINATED">> : s \in {"REQUESTED", "OFFERED", "AGREED", "VERIFIED"}}

\* C1: whatever call is made, a negotiation that is in the store before and
\* after it either keeps its state or moves along one edge of the graph
\* REQUESTED -> OFFERED -> AGREED -> VERIFIED -> FINALIZED, or from a
\* non-terminal state to TERMINATED; so it never moves backwards, never skips a
\* state and never leaves FINALIZED or TERMINATED.
C1_NegotiationMovesAlongGraph ==
    [][\A n \in DOMAIN negotiations \cap DOMAIN negotiations' :
          \/ negotiations'[n].state = negotiations[n].state
          \/ <<negotiations[n].state, negotiations'[n].state>> \in NegotiationEdges]_vars

\* A negotiation has walked the whole graph, one history entry per state.
C1_Witness ==
    \E n \in DOMAIN negotiations :
        /\ negotiations[n].state = "FINALIZED"
        /\ Len(negotiations[n].state_history) = 5

\* C2: a call of offer, agree, verify, finalize or terminate on a negotiation
\* that is FINALIZED or TERMINATED is answered 400 INVALID_STATE and changes
\* neither the negotiations (state and state_history included) nor the
\* agreements.
C2_TerminalRejectsEveryTransition ==
    [][\A n \in DOMAIN negotiations :
          (/\ negotiations[n].state \in TerminalNegotiationStates
           /\ response'.op \in NegotiationOps
           /\ response'.id = n)
          => (/\ response'.status = 400
              /\ response'.error = "INVALID_STATE"
              /\ negotiations' = negotiations
              /\ agreements' = agreements)]_vars

\* finalize has just been rejected on a TERMINATED negotiation.
C2_Witness ==
    /\ response.op = "finalize"
    /\ response.error = "INVALID_STATE"
    /\ response.id \in DOMAIN negotiations
    /\ negotiations[response.id].state = "TERMINATED"

\* The agreements that name negotiation n.
AgreementsOf(n) == {a \in DOMAIN agreements : agreements[a].negotiation_id = n}

\* C3: in every reachable state there are as many agreements as FINALIZED
\* negotiations, each FINALIZED negotiation has exactly one agreement, and a
\* negotiation in any other state has none.
C3_OneAgreementPerFinalized ==
    /\ Cardinality(DOMAIN agreements) =
       Cardinality({n \in DOMAIN negotiations : negotiations[n].state = "FINALIZED"})
    /\ \A n \in DOMAIN negotiations :
          IF negotiations[n].state = "FINALIZED"
          THEN Cardinality(AgreementsOf(n)) = 1
          ELSE AgreementsOf(n) = {} /\ negotiations[n].agreement_id = 0

\* finalize has just succeeded and its agreement is in the store.
C3_Witness ==
    /\ response.op = "finalize"
    /\ response.status = 200
    /\ Cardinality(DOMAIN agreements) = 1

\* The request contexts an offer can have evaluated for negotiation n.
OfferAttrs(n) ==
    {Attrs(negotiations[n].consumer_attributes)} \cup
    {a.consumer_attributes : a \in {x \in OfferActions : x.given}}

\* The evaluator grants the policy bound to n for one of those contexts, with
\* the trace the negotiation recorded.
EvaluatorAllowed(n) ==
    \E attrs \in OfferAttrs(n) :
        LET result == evaluate_attrs(POLICY_TEMPLATES[negotiations[n].policy_id], attrs)
        IN /\ ~result.raised
           /\ result.allowed
           /\ result.evaluated_constraints =
                negotiations[n].policy_evaluation.evaluated_constraints

\* C4: every negotiation in OFFERED, AGREED, VERIFIED or FINALIZED has a recorded
\* policy_evaluation with allowed = true that the evaluator did return for its
\* policy, and every agreement belongs to such a negotiation.
C4_AdvanceOnlyWhenAllowed ==
    /\ \A n \in DOMAIN negotiations :
          negotiations[n].state \in {"OFFERED", "AGREED", "VERIFIED", "FINALIZED"}
          => (/\ negotiations[n].policy_evaluation.present
              /\ negotiations[n].policy_evaluation.allowed
              /\ EvaluatorAllowed(n))
    /\ \A a \in DOMAIN agreements :
          /\ agreements[a].negotiation_id \in DOMAIN negotiations
          /\ negotiations[agreements[a].negotiation_id].policy_evaluation.present
          /\ negotiations[agreements[a].negotiation_id].policy_evaluation.allowed

\* An agreement exists for a negotiation whose stored attributes the evaluator
\* would refuse: it was offered on the caller's override.
C4_Witness ==
    \E a \in DOMAIN agreements :
        LET n == agreements[a].negotiation_id
        IN /\ negotiations[n].state = "FINALIZED"
           /\ ~evaluate(POLICY_TEMPLATES[negotiations[n].policy_id],
                        negotiations[n].consumer_attributes).allowed

\* C5: an offer answered with success on a REQUESTED negotiation n was decided by
\* the evaluator: for the context of the call, either the evaluator allowed and
\* n is OFFERED with the evaluation recorded, or it denied and n is TERMINATED
\* with the evaluator's reason recorded in policy_evaluation and state_history.
C5_OfferOutcome ==
    [][\A n \in DOMAIN negotiations :
          (/\ negotiations[n].state = "REQUESTED"
           /\ response'.op = "offer"
           /\ response'.id = n
           /\ response'.status = 200)
          => \E attrs \in OfferAttrs(n) :
                LET result ==
                        evaluate_attrs(POLICY_TEMPLATES[negotiations[n].policy_id], attrs)
                    after == negotiations'[n]
                    entry == after.state_history[Len(after.state_history)]
                IN /\ ~result.raised
                   /\ after.state_history = Append(negotiations[n].state_history, entry)
                   /\ after.policy_evaluation.present
                   /\ after.policy_evaluation.allowed = result.allowed
                   /\ after.policy_evaluation.evaluated_constraints =
                        result.evaluated_constraints
                   /\ IF result.allowed
                      THEN /\ after.state = "OFFERED"
                           /\ entry.state = "OFFERED"
                           /\ entry.policy_evaluation = "PASSED"
                      ELSE /\ after.state = "TERMINATED"
                           /\ entry.state = "TERMINATED"
                           /\ entry.policy_evaluation = "FAILED"
                           /\ entry.reason = result.reason
                           /\ entry.reason_action = result.reason_action
                           /\ after.policy_evaluation.reason = result.reason]_vars

\* An offer has just been denied: the negotiation is TERMINATED with the reason.
C5_Witness ==
    /\ response.op = "offer"
    /\ response.status = 200
    /\ response.state = "TERMINATED"
    /\ negotiations[response.id].state = "TERMINATED"
    /\ negotiations[response.id].policy_evaluation.reason = "No matching permission found"

\* C9: initiate_transfer on an id that is no stored agreement answers 404
\* AGREEMENT_NOT_FOUND, on a stored agreement that is not ACTIVE answers 400
\* AGREEMENT_NOT_ACTIVE, and both store nothing; any other call stores exactly
\* one new transfer, in REQUESTED, naming a stored ACTIVE agreement.  Hence in
\* every reachable state each stored transfer names a stored ACTIVE agreement.
C9_TransferOnlyOnActiveAgreement ==
    /\ [](\A t \in DOMAIN transfers :
            /\ transfers[t].agreement_id \in DOMAIN agreements
            /\ agreements[transfers[t].agreement_id].status = "ACTIVE")
    /\ [][response'.op = "initiate_transfer" =>
          \/ /\ response'.status = 404
             /\ response'.error = "AGREEMENT_NOT_FOUND"
             /\ response'.id \notin DOMAIN agreements
             /\ transfers' = transfers
          \/ /\ response'.status = 400
             /\ response'.error = "AGREEMENT_NOT_ACTIVE"
             /\ response'.id \in DOMAIN agreements
             /\ agreements[response'.id].status # "ACTIVE"
             /\ transfers' = transfers
          \/ /\ response'.status = 200
             /\ response'.id \notin DOMAIN transfers
             /\ DOMAIN transfers' = DOMAIN transfers \cup {response'.id}
             /\ \A t \in DOMAIN transfers : transfers'[t] = transfers[t]
             /\ transfers'[response'.id].state = "REQUESTED"
             /\ transfers'[response'.id].agreement_id \in DOMAIN agreements
             /\ agreements[transfers'[response'.id].agreement_id].status = "ACTIVE"]_vars

\* A transfer has just been created on a stored agreement.
C9_Witness ==
    /\ response.op = "initiate_transfer"
    /\ response.status = 200
    /\ response.id \in DOMAIN transfers
    /\ transfers[response.id].agreement_id \in DOMAIN agreements

\* The edges of the transfer graph of section 4.3.
TransferEdges ==
    {<<"REQUESTED", "STARTED">>, <<"STARTED", "COMPLETED">>,
     <<"STARTED", "SUSPENDED">>} \cup
    {<<s, "TERMINATED">> : s \in {"REQUESTED", "STARTED", "SUSPENDED"}}

\* C10: a transfer that is in the store before and after a call keeps its state
\* or moves along one edge of the transfer graph (so nothing leaves COMPLETED or
\* TERMINATED); a successful start found it in REQUESTED, a successful complete
\* or suspend found it in STARTED.
C10_TransferMovesAlongGraph ==
    [][/\ \A t \in DOMAIN transfers \cap DOMAIN transfers' :
             \/ transfers'[t].state = transfers[t].state
             \/ <<transfers[t].state, transfers'[t].state>> \in TransferEdges
       /\ (response'.op = "start" /\ response'.status = 200)
             => transfers[response'.id].state = "REQUESTED"
       /\ (response'.op \in {"complete", "suspend"} /\ response'.status = 200)
             => transfers[response'.id].state = "STARTED"]_vars

\* A transfer was started, suspended and then terminated.
C10_Witness ==
    \E t \in DOMAIN transfers :
        transfers[t].state_history = <<"REQUESTED", "STARTED", "SUSPENDED", "TERMINATED">>

\* A transfer's "data" holds something: it is neither None nor an empty document.
HasData(transfer) == transfer.data.present /\ ~transfer.data.empty

\* C11: in every reachable state of the provider a transfer carries data, and
\* the data is not empty, if and only if the transfer is COMPLETED.
C11_DataIffCompleted ==
    \A t \in DOMAIN transfers :
        /\ HasData(transfers[t]) <=> transfers[t].state = "COMPLETED"
        /\ transfers[t].data = NoData <=> transfers[t].state # "COMPLETED"

\* complete has just attached the asset's data to a transfer, now COMPLETED.
C11_Witness ==
    \E t \in DOMAIN transfers :
        /\ transfers[t].state = "COMPLETED"
        /\ HasData(transfers[t])
        /\ response.op = "complete"
        /\ response.status = 200

\* The asset's data can be resolved: the asset is in the catalog, names a data
\* file, and the file opens as a document with content.
Resolvable(asset_id, opened) ==
    /\ HasAsset(asset_id)
    /\ get_asset_by_id(asset_id).data_file # ""
    /\ opened = "document"

RequiredState ==
    [offer |-> "REQUESTED", agree |-> "OFFERED", verify |-> "AGREED",
     finalize |-> "VERIFIED"]

\* C15: offer, agree, verify or finalize called on a negotiation that is not in
\* the state the transition requires is answered 400 INVALID_STATE, the answer
\* names the current and the expected state, and nothing in the store changes.
C15_GuardViolationRejected ==
    [][\A n \in DOMAIN negotiations : \A op \in DOMAIN RequiredState :
          (/\ response'.op = op
           /\ response'.id = n
           /\ negotiations[n].state # RequiredState[op])
          => (/\ response'.status = 400
              /\ response'.error = "INVALID_STATE"
              /\ response'.current = negotiations[n].state
              /\ response'.expected = RequiredState[op]
              /\ negotiations' = negotiations
              /\ agreements' = agreements
              /\ transfers' = transfers)]_vars

\* Scenario D: agree on a negotiation still in REQUESTED has just been rejected,
\* citing OFFERED as the expected state.
C15_Witness ==
    /\ response.op = "agree"
    /\ response.error = "INVALID_STATE"
    /\ response.current = "REQUESTED"
    /\ response.expected = "OFFERED"
    /\ response.id \in DOMAIN negotiations
    /\ negotiations[response.id].state = "REQUESTED"
    /\ Len(negotiations[response.id].state_history) = 1

\* C16: a FINALIZED negotiation and its agreement name each other, and once
\* written neither negotiation.agreement_id nor agreement.negotiation_id is
\* changed by any later call.
C16_AgreementLinkStable ==
    /\ [](/\ \A n \in DOMAIN negotiations :
                negotiations[n].state = "FINALIZED"
                => (/\ negotiations[n].agreement_id \in DOMAIN agreements
                    /\ agreements[negotiations[n].agreement_id].negotiation_id = n)
          /\ \A a \in DOMAIN agreements :
                /\ agreements[a].negotiation_id \in DOMAIN negotiations
                /\ negotiations[agreements[a].negotiation_id].agreement_id = a)
    /\ [][/\ \A n \in DOMAIN negotiations \cap DOMAIN negotiations' :
                negotiations[n].state = "FINALIZED"
                => negotiations'[n].agreement_id = negotiations[n].agreement_id
          /\ \A a \in DOMAIN agreements \cap DOMAIN agreements' :
                agreements'[a].negotiation_id = agreements[a].negotiation_id]_vars

\* A later call (a transfer was created and started on the agreement) has run
\* on a finalized negotiation and its agreement.
C16_Witness ==
    \E t \in DOMAIN transfers :
        /\ transfers[t].state = "STARTED"
        /\ transfers[t].agreement_id \in DOMAIN agreements
        /\ agreements[transfers[t].agreement_id].negotiation_id \in DOMAIN negotiations

\* C19: terminate on a negotiation in REQUESTED, OFFERED, AGREED or VERIFIED is
\* accepted and moves it to TERMINATED; it is rejected exactly when the
\* negotiation is FINALIZED or TERMINATED.
C19_TerminateNegotiation ==
    [][\A n \in DOMAIN negotiations :
          (response'.op = "terminate" /\ response'.id = n)
          => IF negotiations[n].state \in {"REQUESTED", "OFFERED", "AGREED", "VERIFIED"}
             THEN /\ response'.status = 200
                  /\ negotiations'[n].state = "TERMINATED"
             ELSE /\ negotiations[n].state \in TerminalNegotiationStates
                  /\ response'.status = 400
                  /\ response'.error = "INVALID_STATE"
                  /\ negotiations' = negotiations]_vars

\* terminate has just been accepted on a negotiation that was VERIFIED.
C19_Witness ==
    /\ response.op = "terminate"
    /\ response.status = 200
    /\ response.id \in DOMAIN negotiations
    /\ negotiations[response.id].state = "TERMINATED"
    /\ Len(negotiations[response.id].state_history) = 5
    /\ negotiations[response.id].state_history[4].state = "VERIFIED"

\* C20: terminate on a transfer in REQUESTED, STARTED or SUSPENDED is accepted
\* and moves it to TERMINATED; on a COMPLETED or TERMINATED transfer it is
\* answered 400 INVALID_STATE and the transfer's state, data and state_history
\* stay as they were.
C20_TerminateTransfer ==
    [][\A t \in DOMAIN transfers :
          (response'.op = "terminate_transfer" /\ response'.id = t)
          => IF transfers[t].state \in {"REQUESTED", "STARTED", "SUSPENDED"}
             THEN /\ response'.status = 200
                  /\ transfers'[t].state = "TERMINATED"
             ELSE /\ transfers[t].state \in {"COMPLETED", "TERMINATED"}
                  /\ response'.status = 400
                  /\ response'.error = "INVALID_STATE"
                  /\ transfers'[t].state = transfers[t].state
                  /\ transfers'[t].data = transfers[t].data
                  /\ transfers'[t].state_history = transfers[t].state_history
                  /\ transfers' = transfers]_vars

\* terminate has just been rejected on a COMPLETED transfer, which keeps its data.
C20_Witness ==
    /\ response.op = "terminate_transfer"
    /\ response.error = "INVALID_STATE"
    /\ response.id \in DOMAIN transfers
    /\ transfers[response.id].state = "COMPLETED"
    /\ HasData(transfers[response.id])

\* The attributes an offer call evaluates for negotiation n.
AttrsOfOffer(n, action) ==
    IF action.given THEN action.consumer_attributes
    ELSE Attrs(negotiations[n].consumer_attributes)

\* The policy bound to negotiation n passes for the attributes of the call.
PolicyPasses(n, action) ==
    LET result == evaluate_attrs(POLICY_TEMPLATES[negotiations[n].policy_id],
                                 AttrsOfOffer(n, action))
    IN ~result.raised /\ result.allowed

\* The Asset Catalog's data for an asset id.
CatalogData(asset_id) == Json(get_asset_by_id(asset_id).data_file, FALSE)

\* C17: the happy path goes through.  On a REQUESTED negotiation an offer whose
\* policy passes gives OFFERED, then agree gives AGREED, verify VERIFIED, and
\* finalize FINALIZED with an agreement of status ACTIVE for the negotiated
\* asset; initiate_transfer on that agreement gives a REQUESTED transfer, start
\* gives STARTED and complete, the data file being readable, gives COMPLETED;
\* and the data of every COMPLETED transfer is the Asset Catalog's data for the
\* asset of the negotiation its agreement came from.
C17_HappyPath ==
    /\ [](/\ \A a \in DOMAIN agreements : agreements[a].status = "ACTIVE"
          /\ \A t \in DOMAIN transfers :
                transfers[t].state = "COMPLETED"
                => transfers[t].data =
                     CatalogData(negotiations[
                        agreements[transfers[t].agreement_id].negotiation_id].asset_id))
    /\ [][/\ \A n \in DOMAIN negotiations :
                /\ \A action \in OfferActions :
                      (/\ negotiations[n].state = "REQUESTED"
                       /\ PolicyPasses(n, action)
                       /\ provider_offer(n, action))
                      => negotiations'[n].state = "OFFERED"
                /\ (negotiations[n].state = "OFFERED" /\ consumer_agree(n))
                      => negotiations'[n].state = "AGREED"
                /\ (negotiations[n].state = "AGREED" /\ verify_agreement(n))
                      => negotiations'[n].state = "VERIFIED"
                /\ (negotiations[n].state = "VERIFIED" /\ finalize_agreement(n))
                      => /\ negotiations'[n].state = "FINALIZED"
                         /\ negotiations'[n].agreement_id \in DOMAIN agreements'
                         /\ agreements'[negotiations'[n].agreement_id].status = "ACTIVE"
                         /\ agreements'[negotiations'[n].agreement_id].asset_id =
                               negotiations[n].asset_id
          /\ \A a \in DOMAIN agreements :
                initiate_transfer(a)
                => /\ response'.status = 200
                   /\ response'.id \in DOMAIN transfers' \ DOMAIN transfers
                   /\ transfers'[response'.id].state = "REQUESTED"
                   /\ transfers'[response'.id].agreement_id = a
          /\ \A t \in DOMAIN transfers :
                /\ (transfers[t].state = "REQUESTED" /\ start_transfer(t))
                      => transfers'[t].state = "STARTED"
                /\ (transfers[t].state = "STARTED" /\ complete_transfer(t, "document"))
                      => /\ transfers'[t].state = "COMPLETED"
                         /\ transfers'[t].data = CatalogData(transfers[t].asset_id)]_vars

\* The happy path has been walked without a detour, for the quality metrics:
\* the negotiation went straight to FINALIZED and the transfer on its agreement
\* straight to COMPLETED, carrying the catalog's data for the asset.
C17_Witness ==
    \E t \in DOMAIN transfers :
        LET a == transfers[t].agreement_id
            n == agreements[a].negotiation_id
        IN /\ transfers[t].state_history = <<"REQUESTED", "STARTED", "COMPLETED">>
           /\ agreements[a].status = "ACTIVE"
           /\ negotiations[n].state = "FINALIZED"
           /\ Len(negotiations[n].state_history) = 5
           /\ negotiations[n].asset_id = "quality-metrics-q4"
           /\ transfers[t].data = CatalogData("quality-metrics-q4")

\* t is s with one more entry at its end.
AppendedOnce(s, t) == Len(t) = Len(s) + 1 /\ SubSeq(t, 1, Len(s)) = s

TransferOps == {"start", "complete", "suspend", "terminate_transfer"}

\* C18: a state_history is only ever appended to, one entry per successful
\* transition: a successful create leaves a history of one entry, a successful
\* transition of a negotiation or transfer appends exactly one entry to its
\* history, a rejected call changes no history, and whatever the call the
\* earlier history of a stored entity is a prefix of the later one.
C18_HistoryAppendOnly ==
    [][/\ \A n \in DOMAIN negotiations \cap DOMAIN negotiations' :
             /\ \/ negotiations'[n].state_history = negotiations[n].state_history
                \/ AppendedOnce(negotiations[n].state_history,
                                negotiations'[n].state_history)
             /\ (response'.op \in NegotiationOps /\ response'.id = n)
                   => IF response'.status = 200
                      THEN AppendedOnce(negotiations[n].state_history,
                                        negotiations'[n].state_history)
                      ELSE negotiations'[n].state_history = negotiations[n].state_history
       /\ \A t \in DOMAIN transfers \cap DOMAIN transfers' :
             /\ \/ transfers'[t].state_history = transfers[t].state_history
                \/ AppendedOnce(transfers[t].state_history, transfers'[t].state_history)
             /\ (response'.op \in TransferOps /\ response'.id = t)
                   => IF response'.status = 200
                      THEN AppendedOnce(transfers[t].state_history,
                                        transfers'[t].state_history)
                      ELSE transfers'[t].state_history = transfers[t].state_history
       /\ \A n \in DOMAIN negotiations' \ DOMAIN negotiations :
             Len(negotiations'[n].state_history) = 1
       /\ \A t \in DOMAIN transfers' \ DOMAIN transfers :
             Len(transfers'[t].state_history) = 1
       /\ response'.status \notin {0, 200}
             => negotiations' = negotiations /\ transfers' = transfers]_vars

\* complete has just been rejected on a suspended transfer, whose history still
\* has its three entries.
C18_Witness ==
    /\ response.op = "complete"
    /\ response.error = "INVALID_STATE"
    /\ response.id \in DOMAIN transfers
    /\ transfers[response.id].state_history = <<"REQUESTED", "STARTED", "SUSPENDED">>

\* C21: initiating a negotiation for an asset id that is not in the catalog is
\* answered 404 ASSET_NOT_FOUND and stores nothing; for an asset of the catalog
\* it stores one new negotiation, in REQUESTED, whose policy_id is the one the
\* catalog binds to that asset and whose consumer attributes are those supplied
\* (none supplied is the empty mapping), and leaves every other record alone.
C21_InitiateNegotiation ==
    [][\A consumer_id \in ConsumerIds, asset_id \in AssetIds,
          consumer_attributes \in RequestAttributes :
          initiate_negotiation(consumer_id, asset_id, consumer_attributes)
          => IF \A i \in DOMAIN ASSETS : ASSETS[i].id # asset_id
             THEN /\ response'.status = 404
                  /\ response'.error = "ASSET_NOT_FOUND"
                  /\ negotiations' = negotiations
                  /\ agreements' = agreements
                  /\ transfers' = transfers
             ELSE /\ response'.status = 200
                  /\ response'.id \notin DOMAIN negotiations
                  /\ DOMAIN negotiations' = DOMAIN negotiations \cup {response'.id}
                  /\ \A n \in DOMAIN negotiations : negotiations'[n] = negotiations[n]
                  /\ negotiations'[response'.id].state = "REQUESTED"
                  /\ negotiations'[response'.id].asset_id = asset_id
                  /\ negotiations'[response'.id].consumer_id = consumer_id
                  /\ \E i \in DOMAIN ASSETS :
                        /\ ASSETS[i].id = asset_id
                        /\ negotiations'[response'.id].policy_id = ASSETS[i].policy_id
                  /\ negotiations'[response'.id].consumer_attributes =
                        (IF consumer_attributes.is_none THEN <<>>
                         ELSE consumer_attributes.dict)
                  /\ agreements' = agreements
                  /\ transfers' = transfers]_vars

\* A negotiation for quality-metrics-q4 has just been created with the
\* attributes of the request and the quality-data policy.
C21_Witness ==
    /\ response.op = "initiate_negotiation"
    /\ response.status = 200
    /\ response.id \in DOMAIN negotiations
    /\ negotiations[response.id].state = "REQUESTED"
    /\ negotiations[response.id].asset_id = "quality-metrics-q4"
    /\ negotiations[response.id].policy_id = "quality-data"
    /\ negotiations[response.id].consumer_attributes = ContextQualified

\* The attributes the claim has offer evaluate: the override of the call when
\* it carries attributes, the attributes stored with the negotiation otherwise.
AttributesToEvaluate(n, action) ==
    IF action.given /\ ~action.consumer_attributes.is_none
    THEN action.consumer_attributes.dict
    ELSE negotiations[n].consumer_attributes

\* The policy the catalog binds to the asset of negotiation n.
PolicyBoundTo(n) ==
    POLICY_TEMPLATES[
        (CHOOSE a \in {ASSETS[i] : i \in DOMAIN ASSETS} :
            a.id = negotiations[n].asset_id).policy_id]

\* C22: offer on a REQUESTED negotiation evaluates the policy bound to the
\* negotiation against the attribute override of the call when one is given and
\* against the stored consumer attributes when the call supplies no attributes:
\* the negotiation moves to OFFERED when that evaluation allows and to
\* TERMINATED, with the evaluation's reason, when it denies; a call that does
\* not complete the transition leaves the negotiation unchanged.
C22_OfferEvaluatesBoundPolicy ==
    [][\A n \in DOMAIN negotiations : \A action \in OfferActions :
          (negotiations[n].state = "REQUESTED" /\ provider_offer(n, action))
          => LET result == evaluate(PolicyBoundTo(n), AttributesToEvaluate(n, action))
             IN /\ negotiations'[n].state \in {"OFFERED", "TERMINATED"}
                      \/ negotiations'[n] = negotiations[n]
                /\ IF result.raised
                   THEN response'.status = 500 /\ negotiations'[n] = negotiations[n]
                   ELSE /\ response'.status = 200
                        /\ negotiations'[n].state =
                              (IF result.allowed THEN "OFFERED" ELSE "TERMINATED")
                        /\ negotiations'[n].policy_evaluation.allowed = result.allowed
                        /\ negotiations'[n].policy_evaluation.evaluated_constraints =
                              result.evaluated_constraints
                        /\ ~result.allowed =>
                              negotiations'[n].policy_evaluation.reason = result.reason]_vars

-----------------------------------------------------------------------------
(* The evaluator on its own: evaluate applied to every policy and context
   drawn from a small universe of rules and request attributes. *)

\* Bound of the model: how many rules (prohibitions and permissions together)
\* a policy of the universe has at most.
MaxRules == 3

S_a == <<97>>
S_b == <<98>>

\* k EQ "a" (the operator in upper case), k neq "b", k gt 3.
ConstraintEq == Constraint("k", S_EQ, Str(S_a))
ConstraintNeq == Constraint("k", S_neq, Str(S_b))
ConstraintGt == Constraint("k", S_gt, Num(3))

RuleActions == {S_USE, S_DISTRIBUTE}
RuleConstraints ==
    {<<>>, <<ConstraintEq>>, <<ConstraintGt>>, <<ConstraintNeq, ConstraintEq>>}

\* Permissions and Prohibitions have the same fields.
Rules == {Permission(a, c) : a \in RuleActions, c \in RuleConstraints}

\* All sequences of rules of length at most n.
RECURSIVE RuleLists(_)
RuleLists(n) ==
    IF n = 0 THEN {<<>>}
    ELSE RuleLists(n - 1) \cup
         {Append(l, r) : l \in {x \in RuleLists(n - 1) : Len(x) = n - 1}, r \in Rules}

Policies ==
    {Policy("policy", permissions, prohibitions) :
        <<permissions, prohibitions>> \in
            {pq \in RuleLists(MaxRules) \X RuleLists(MaxRules) :
                Len(pq[1]) + Len(pq[2]) <= MaxRules}}

\* Request contexts: k absent, "a", "b" or 5; action absent, "use" or "DISTRIBUTE".
ContextValues == {None, Str(S_a), Str(S_b), Num(5)}
ContextActions == {None, Str(S_use), Str(S_DISTRIBUTE)}

Context(k, action) ==
    [key \in (IF k = None THEN {} ELSE {"k"}) \cup
             (IF action = None THEN {} ELSE {"action"}) |->
        IF key = "k" THEN k ELSE action]

Contexts == {Context(k, action) : k \in ContextValues, action \in ContextActions}

InitEval ==
    /\ InitStore
    /\ InitConsumer
    /\ ev_policy \in Policies
    /\ ev_context \in Contexts
    /\ ev_result = NotEvaluated

Evaluate ==
    /\ ev_result = NotEvaluated
    /\ ev_result' = evaluate(ev_policy, ev_context)
    /\ UNCHANGED <<ev_policy, ev_context>>
    /\ UNCHANGED <<store_vars, consumer_vars>>

NextEval == Evaluate

SpecEval == InitEval /\ [][NextEval]_vars

-----------------------------------------------------------------------------
(* The evaluator among the provider's operations: the provider's one
   PolicyEvaluator evaluates a fixed policy and context again and again while
   negotiations and transfers go on, offer's own evaluations included. *)

TemplateContexts ==
    {ContextTier1, ContextCostReduction, ContextQualified, ContextDistribute}

InitEvalStore ==
    /\ InitStore
    /\ InitConsumer
    /\ ev_policy \in {POLICY_TEMPLATES[id] : id \in DOMAIN POLICY_TEMPLATES}
    /\ ev_context \in TemplateContexts
    /\ ev_result = NotEvaluated

\* One more evaluate(policy, context) on the provider's evaluator.
Reevaluate ==
    /\ ev_result' = evaluate(ev_policy, ev_context)
    /\ UNCHANGED <<ev_policy, ev_context>>
    /\ UNCHANGED <<store_vars, consumer_vars>>

NextEvalStore == Next \/ Reevaluate

SpecEvalStore == InitEvalStore /\ [][NextEvalStore]_vars

-----------------------------------------------------------------------------
(* One constraint on its own: evaluate applied to the policies of one rule
   with one constraint, for every operator and every pair of operands of a
   small universe of values. *)

Operators ==
    {S_eq, S_neq, S_in, S_gt, S_lt, S_gte, S_lte, S_contains, S_has_any, S_matches}

\* Strings, numbers, lists of strings, the empty list and a list of lists.
Operands ==
    {Str(S_a), Str(S_b), Num(3), Num(5),
     List(<<Str(S_a)>>), List(<<Str(S_b)>>), List(<<Str(S_a), Str(S_b)>>),
     List(<<>>), List(<<List(<<Str(S_a)>>)>>)}

\* A policy whose only Permission depends on the constraint, and a policy that
\* permits USE unless a Prohibition that depends on the constraint blocks it.
PermissionPolicy(constraint) ==
    Policy("permission", <<Permission(S_USE, <<constraint>>)>>, <<>>)

ProhibitionPolicy(constraint) ==
    Policy("prohibition", <<Permission(S_USE, <<>>)>>,
           <<Prohibition(S_USE, <<constraint>>)>>)

ConstraintPolicies ==
    UNION {{PermissionPolicy(Constraint("k", operator, right)),
            ProhibitionPolicy(Constraint("k", operator, right))} :
                operator \in Operators, right \in Operands}

\* The context value k of every operand, and the context without the key.
OperandContexts == {Context(k, None) : k \in Operands \cup {None}}

InitOperators ==
    /\ InitStore
    /\ InitConsumer
    /\ ev_policy \in ConstraintPolicies
    /\ ev_context \in OperandContexts
    /\ ev_result = NotEvaluated

SpecOperators == InitOperators /\ [][NextEval]_vars

-----------------------------------------------------------------------------
(* Properties of the policy evaluator *)

Evaluated == ev_result # NotEvaluated

\* The constraint holds in the context under evaluation.
Satisfied(constraint) ==
    /\ ~_evaluate_single_constraint(constraint, ev_context).raised
    /\ _evaluate_single_constraint(constraint, ev_context).value

\* The rule's action is the request action and all its constraints hold (a rule
\* without constraints is fully satisfied).
FullySatisfied(rule) ==
    /\ _action_matches(rule.action, RequestAction(ev_context).s)
    /\ \A i \in DOMAIN rule.constraints : Satisfied(rule.constraints[i])

Blocked ==
    \E i \in DOMAIN ev_policy.prohibitions : FullySatisfied(ev_policy.prohibitions[i])

Granted ==
    \E i \in DOMAIN ev_policy.permissions : FullySatisfied(ev_policy.permissions[i])

\* The policy has a Permission for the request action without constraints.
HasUnconstrainedPermission ==
    \E i \in DOMAIN ev_policy.permissions :
        /\ _action_matches(ev_policy.permissions[i].action, RequestAction(ev_context).s)
        /\ ev_policy.permissions[i].constraints = <<>>

\* C6: when a Prohibition for the request action is fully satisfied, evaluate
\* returns allowed = false, whatever the Permissions of the policy.
C6_DenyOverridesAllow ==
    (Evaluated /\ Blocked) => (~ev_result.raised /\ ~ev_result.allowed)

\* C7: evaluate returns allowed = true exactly when no Prohibition for the
\* request action is fully satisfied and some Permission for it is; otherwise it
\* returns allowed = false, with the reason "No matching permission found" when
\* no Prohibition blocked.  tier1-only grants {partner_type: tier1_supplier};
\* quality-data denies {partner_type: tier1_supplier, purpose: cost_reduction}.
C7_AllowedExactlyWhenGranted ==
    /\ Evaluated =>
          /\ ~ev_result.raised
          /\ ev_result.allowed = (~Blocked /\ Granted)
          /\ (~ev_result.allowed /\ ~Blocked)
                => ev_result.reason = "No matching permission found"
    /\ evaluate(TIER1_SUPPLIER_ONLY_POLICY, ContextTier1).allowed
    /\ ~evaluate(QUALITY_DATA_POLICY, ContextCostReduction).allowed
    /\ evaluate(QUALITY_DATA_POLICY, ContextCostReduction).reason =
          "No matching permission found"

Matching(rule) == _action_matches(rule.action, RequestAction(ev_context).s)

\* The checks of a rule's constraints: each with the constraint, the context
\* value observed ("NOT_PROVIDED" for a missing key) and whether it holds.
Checks(rule) ==
    [i \in DOMAIN rule.constraints |->
        [constraint |-> rule.constraints[i],
         context_value |->
            IF rule.constraints[i].left_operand \in DOMAIN ev_context
            THEN ev_context[rule.constraints[i].left_operand]
            ELSE Str(S_NOT_PROVIDED),
         satisfied |-> Satisfied(rule.constraints[i])]]

\* The checks made while going through `rules` in order: those of every rule
\* for the request action, up to and including the first fully satisfied one.
RECURSIVE ChecksMade(_)
ChecksMade(rules) ==
    IF rules = <<>> THEN <<>>
    ELSE IF ~Matching(Head(rules)) THEN ChecksMade(Tail(rules))
    ELSE IF FullySatisfied(Head(rules)) THEN Checks(Head(rules))
    ELSE Checks(Head(rules)) \o ChecksMade(Tail(rules))

\* C23: the evaluated_constraints an evaluation returns hold every constraint
\* check it made, in order, each with its constraint, the context value
\* observed and its result: the checks of the prohibitions gone through and,
\* when none of them blocks, those of the permissions gone through; the checks
\* of earlier prohibitions that did not block are there when a later one blocks.
C23_TraceHoldsEveryCheck ==
    (Evaluated /\ ~ev_result.raised)
        => ev_result.evaluated_constraints =
              (IF Blocked THEN ChecksMade(ev_policy.prohibitions)
               ELSE ChecksMade(ev_policy.prohibitions)
                       \o ChecksMade(ev_policy.permissions))

-----------------------------------------------------------------------------
(* Properties of the consumer's mirror of negotiations and transfers *)

\* The consumer endpoints that mirror a provider transition.
MirroredTransitions == {"request-offer", "agree", "verify", "finalize", "start", "complete"}

\* The awaited call failed: no connection, or a response of status >= 400.
Failed(reply) == reply.kind = "ConnectError" \/ IsError(reply)

\* C13: when the provider call of a mirrored transition (request-offer, agree,
\* verify, finalize, start, complete) fails, by a connection error or by a
\* non-success status, the handler leaves the consumer's local records, their
\* state and history included, exactly as they were before the call.
C13_FailedCallLeavesMirror ==
    [][\A c \in Callers :
          (/\ calls[c].pc \in {"replied", "replied_data"}
           /\ calls[c].op \in MirroredTransitions
           /\ Failed(calls[c].reply)
           /\ Resumed(c))
          => consumer_store' = consumer_store]_vars

\* C14: of two callers inside the handler of the same transition on the same
\* id at once, where the provider has applied d's call, the other caller c is
\* rejected with an error and its handler applies nothing, so that the
\* transition is applied once.
C14_ConcurrentCallsOneSucceeds ==
    [][\A c, d \in Callers :
          (/\ c # d
           /\ calls[c].op \in MirroredTransitions
           /\ calls[d].op = calls[c].op
           /\ calls[d].id = calls[c].id
           /\ calls[c].pc = "replied"
           /\ calls[d].pc = "replied"
           /\ ~Failed(calls[d].reply)
           /\ Resumed(c))
          => /\ calls'[c].result.status >= 400
             /\ consumer_store' = consumer_store]_vars

-----------------------------------------------------------------------------
(* Properties of the evaluation of one constraint *)

\* The one constraint of the policy under evaluation.
TheConstraint ==
    IF ev_policy.prohibitions # <<>> THEN ev_policy.prohibitions[1].constraints[1]
    ELSE ev_policy.permissions[1].constraints[1]

OperatorIs(operators) == Lower(TheConstraint.operator) \in operators

KeyMissing == TheConstraint.left_operand \notin DOMAIN ev_context

\* The evaluation returned, and its trace says the constraint was satisfied.
ReturnedSatisfied ==
    /\ ~ev_result.raised
    /\ Len(ev_result.evaluated_constraints) = 1
    /\ ev_result.evaluated_constraints[1].satisfied

\* The evaluation returned, and its trace says the constraint was not satisfied.
ReturnedUnsatisfied ==
    /\ ~ev_result.raised
    /\ Len(ev_result.evaluated_constraints) = 1
    /\ ~ev_result.evaluated_constraints[1].satisfied

\* C25: a has_any constraint is satisfied exactly when the context value and
\* the right operand are both lists with an element in common; it is
\* unsatisfied for disjoint lists and when either operand is not a list.
C25_HasAny ==
    (Evaluated /\ OperatorIs({S_has_any}) /\ ~KeyMissing)
        => LET left == ev_context[TheConstraint.left_operand]
               right == TheConstraint.right_operand
           IN IF /\ left.t = "list"
                 /\ right.t = "list"
                 /\ \E i \in DOMAIN left.l : \E j \in DOMAIN right.l :
                       left.l[i] = right.l[j]
              THEN ReturnedSatisfied
              ELSE ReturnedUnsatisfied

\* C26: a gt, lt, gte or lte constraint whose context value and right operand
\* are of different types is unsatisfied, and the evaluation returns a result:
\* a denial for the policy whose Permission depends on the constraint, a grant
\* for the policy whose Prohibition depends on it.
C26_MismatchedOrderingUnsatisfied ==
    (/\ Evaluated
     /\ OperatorIs({S_gt, S_lt, S_gte, S_lte})
     /\ ~KeyMissing
     /\ ev_context[TheConstraint.left_operand].t # TheConstraint.right_operand.t)
        => /\ ReturnedUnsatisfied
           /\ ev_result.allowed = (ev_policy.prohibitions # <<>>)

\* C27: a constraint whose key is missing from the context is unsatisfied
\* whatever its operator, neq included: the Permission that depends on it does
\* not grant ("No matching permission found"), and the Prohibition that
\* depends on it does not block (the request is granted).
C27_MissingKeyUnsatisfied ==
    (Evaluated /\ KeyMissing)
        => /\ ReturnedUnsatisfied
           /\ ev_result.evaluated_constraints[1].context_value = Str(S_NOT_PROVIDED)
           /\ IF ev_policy.prohibitions = <<>>
              THEN /\ ~ev_result.allowed
                   /\ ev_result.reason = "No matching permission found"
              ELSE /\ ev_result.allowed
                   /\ ev_result.reason = "Permission granted (no constraints)"

\* A Prohibition on k neq "b" has been evaluated without k in the context, and
\* did not block.
C27_Witness ==
    /\ Evaluated
    /\ KeyMissing
    /\ OperatorIs({S_neq})
    /\ TheConstraint.right_operand = Str(S_b)
    /\ ev_policy.prohibitions # <<>>
    /\ ev_result.allowed

-----------------------------------------------------------------------------
(* Properties of the data endpoints *)

\* C28: the provider's data endpoint answers 400 TRANSFER_NOT_COMPLETED, and so
\* carries no data, for a transfer in REQUESTED, STARTED, SUSPENDED or
\* TERMINATED, and so does the consumer's for a local transfer that is not
\* COMPLETED; wherever asset data has been returned, to the consumer's handler
\* or to its caller, the transfer it belongs to is COMPLETED.
C28_DataOnlyWhenCompleted ==
    /\ [][\A transfer_id \in DOMAIN transfers : \A opened \in FileOutcomes :
             (/\ transfers[transfer_id].state # "COMPLETED"
              /\ get_transferred_data(transfer_id, opened))
             => /\ transfers[transfer_id].state \in
                      {"REQUESTED", "STARTED", "SUSPENDED", "TERMINATED"}
                /\ response'.status = 400
                /\ response'.error = "TRANSFER_NOT_COMPLETED"]_vars
    /\ [][\A c \in Callers : \A transfer_id \in DOMAIN consumer_store.transfers :
             (/\ consumer_store.transfers[transfer_id].state # "COMPLETED"
              /\ calls[c].pc = "idle"
              /\ get_transfer_data(c, transfer_id))
             => /\ calls'[c].result.status = 400
                /\ calls'[c].result.error = "TRANSFER_NOT_COMPLETED"
                /\ calls'[c].result.data = NoData]_vars
    /\ [](\A c \in Callers :
             /\ calls[c].reply.data.present =>
                   /\ calls[c].id \in DOMAIN transfers
                   /\ transfers[calls[c].id].state = "COMPLETED"
             /\ calls[c].result.data.present =>
                   /\ calls[c].id \in DOMAIN consumer_store.transfers
                   /\ consumer_store.transfers[calls[c].id].state = "COMPLETED"
                   /\ transfers[calls[c].id].state = "COMPLETED")

\* The provider has just refused the data of a SUSPENDED transfer, after the
\* consumer refused its caller the data of its local copy, which is STARTED.
C28_Witness ==
    /\ response.op = "data"
    /\ response.error = "TRANSFER_NOT_COMPLETED"
    /\ response.id \in DOMAIN transfers
    /\ transfers[response.id].state = "SUSPENDED"
    /\ calls[1].op = "data"
    /\ calls[1].result.error = "TRANSFER_NOT_COMPLETED"
    /\ calls[1].id \in DOMAIN consumer_store.transfers
    /\ consumer_store.transfers[calls[1].id].state = "STARTED"

-----------------------------------------------------------------------------
(* Properties of operations on different ids *)

\* Every record of `dict` but the one under `id` is still there and the same.
OthersUnchanged(dict, after, id) ==
    \A k \in DOMAIN dict \ {id} : k \in DOMAIN after /\ after[k] = dict[k]

\* A request on negotiation n, answered or rejected.
NegotiationOperation(n) ==
    \/ \E action \in OfferActions : provider_offer(n, action)
    \/ consumer_agree(n)
    \/ verify_agreement(n)
    \/ finalize_agreement(n)
    \/ terminate_negotiation(n)

\* A request on transfer t, answered or rejected.
TransferOperation(t) ==
    \/ start_transfer(t)
    \/ \E opened \in FileOutcomes : complete_transfer(t, opened)
    \/ suspend_transfer(t)
    \/ terminate_transfer(t)

\* C29: a request on one negotiation, answered or rejected, leaves every other
\* negotiation, every transfer and every agreement already made as it was; a
\* request on one transfer leaves every other transfer, every negotiation and
\* every agreement as it was; creating a negotiation or a transfer leaves
\* every record already in the store as it was.
C29_DifferentIdsIndependent ==
    /\ [][\A n \in Ids :
             NegotiationOperation(n)
             => /\ OthersUnchanged(negotiations, negotiations', n)
                /\ OthersUnchanged(agreements, agreements', 0)
                /\ transfers' = transfers]_vars
    /\ [][\A t \in Ids :
             TransferOperation(t)
             => /\ OthersUnchanged(transfers, transfers', t)
                /\ negotiations' = negotiations
                /\ agreements' = agreements]_vars
    /\ [][response'.op \in {"initiate_negotiation", "initiate_transfer"}
             => /\ OthersUnchanged(negotiations, negotiations', 0)
                /\ OthersUnchanged(agreements, agreements', 0)
                /\ OthersUnchanged(transfers, transfers', 0)]_vars

\* The second transfer has just been suspended beside a completed one, and
\* the second negotiation was terminated beside a finalized one.
C29_Witness ==
    /\ DOMAIN negotiations = {1, 2}
    /\ DOMAIN transfers = {1, 2}
    /\ negotiations[1].state = "FINALIZED"
    /\ negotiations[2].state = "TERMINATED"
    /\ transfers[1].state = "COMPLETED"
    /\ transfers[2].state = "SUSPENDED"
    /\ response.op = "suspend"
    /\ response.id = 2
    /\ response.status = 200

-----------------------------------------------------------------------------
(* Properties of the consumer's local negotiation state *)

\* C30: whatever calls are made on the consumer and whatever the provider
\* answers, errors included, the state of every local negotiation is one of
\* REQUESTED, OFFERED, AGREED, VERIFIED, FINALIZED and TERMINATED, and a local
\* negotiation in FINALIZED or TERMINATED keeps its state in every later step.
C30_LocalStateWithinStates ==
    /\ [](\A id \in DOMAIN consumer_store.negotiations :
             consumer_store.negotiations[id].state \in
                {"REQUESTED", "OFFERED", "AGREED", "VERIFIED", "FINALIZED",
                 "TERMINATED"})
    /\ [][\A id \in DOMAIN consumer_store.negotiations :
             consumer_store.negotiations[id].state \in {"FINALIZED", "TERMINATED"}
             => /\ id \in DOMAIN consumer_store'.negotiations
                /\ consumer_store'.negotiations[id].state =
                      consumer_store.negotiations[id].state]_vars

-----------------------------------------------------------------------------
(* Properties of a repeated complete call *)

\* The provider has completed transfer t, of which the consumer has a record.
CompletedOnProvider(t) ==
    /\ t \in DOMAIN transfers
    /\ transfers[t].state = "COMPLETED"
    /\ t \in DOMAIN consumer_store.transfers

\* The consumer's record of transfer t is COMPLETED and its data is stored.
CompletedLocally(t) ==
    /\ t \in DOMAIN consumer_store.transfers
    /\ consumer_store.transfers[t].state = "COMPLETED"
    /\ t \in DOMAIN consumer_store.received_data
    /\ ~Falsy(consumer_store.received_data[t])

\* C31: if from some time on every call reaches the provider, then once the
\* provider has completed a transfer, the caller repeating the consumer's
\* complete call eventually has the local transfer COMPLETED with its data
\* stored, also after an attempt that failed between the provider's completion
\* and the fetch of the data.
C31_RetriedCompleteSucceeds ==
    (<>[][~PeerUnreachable]_vars) =>
        \A t \in TransferIds : CompletedOnProvider(t) ~> CompletedLocally(t)

-----------------------------------------------------------------------------
(* Properties of the consumer's records against the provider's *)

\* The states the provider's negotiation has been through.
StatesMade(negotiation) ==
    {negotiation.state_history[i].state : i \in DOMAIN negotiation.state_history}

\* C32: whenever a local negotiation of the consumer is OFFERED, AGREED,
\* VERIFIED or FINALIZED, the provider's negotiation it mirrors exists and
\* its state_history holds that state.
C32_LocalStateNotAhead ==
    \A id \in DOMAIN consumer_store.negotiations :
        LET local == consumer_store.negotiations[id] IN
        local.state \in {"OFFERED", "AGREED", "VERIFIED", "FINALIZED"}
        => /\ local.provider_negotiation_id \in DOMAIN negotiations
           /\ local.state \in StatesMade(negotiations[local.provider_negotiation_id])

\* The provider has finalized a negotiation whose local record is still
\* VERIFIED: the reply has not been applied yet.
C32_Witness ==
    \E id \in DOMAIN consumer_store.negotiations :
        /\ consumer_store.negotiations[id].state = "VERIFIED"
        /\ id \in DOMAIN negotiations
        /\ negotiations[id].state = "FINALIZED"
        /\ \E c \in Callers : calls[c].pc = "replied" /\ calls[c].op = "finalize"

-----------------------------------------------------------------------------
(* Properties of the provider's state_history *)

\* `states` starts at REQUESTED and each state follows the one before it
\* along an edge of the graph.
IsPath(states, edges) ==
    /\ Len(states) >= 1
    /\ states[1] = "REQUESTED"
    /\ \A i \in 1..(Len(states) - 1) : <<states[i], states[i + 1]>> \in edges

\* The states a negotiation's state_history records, in order.
HistoryStates(negotiation) ==
    [i \in DOMAIN negotiation.state_history |-> negotiation.state_history[i].state]

\* C33: in every state of the provider, the last entry of the state_history
\* of each negotiation and of each transfer records the entity's current
\* state, and the states the history records, in order, are a path of the
\* entity's transition graph that starts at REQUESTED.
C33_HistoryIsPathToState ==
    /\ \A n \in DOMAIN negotiations :
          LET states == HistoryStates(negotiations[n]) IN
          /\ IsPath(states, NegotiationEdges)
          /\ states[Len(states)] = negotiations[n].state
    /\ \A t \in DOMAIN transfers :
          LET states == transfers[t].state_history IN
          /\ IsPath(states, TransferEdges)
          /\ states[Len(states)] = transfers[t].state

\* A negotiation has gone all the way to FINALIZED and a transfer made from
\* its agreement was suspended and then terminated.
C33_Witness ==
    \E n \in DOMAIN negotiations, t \in DOMAIN transfers :
        /\ Len(negotiations[n].state_history) = 5
        /\ negotiations[n].state = "FINALIZED"
        /\ Len(transfers[t].state_history) = 4
        /\ transfers[t].state = "TERMINATED"

-----------------------------------------------------------------------------
(* Properties of the asset a transfer carries *)

\* C34: every transfer of the provider references an agreement of the store
\* with the same asset_id, made by a negotiation of the store with the same
\* asset_id, whose policy_id is that asset's; and the data attached to a
\* COMPLETED transfer is the content of that asset's data file.
C34_TransferCarriesNegotiatedAsset ==
    \A t \in DOMAIN transfers :
        LET transfer == transfers[t] IN
        /\ transfer.agreement_id \in DOMAIN agreements
        /\ LET agreement == agreements[transfer.agreement_id] IN
           /\ transfer.asset_id = agreement.asset_id
           /\ agreement.negotiation_id \in DOMAIN negotiations
           /\ LET negotiation == negotiations[agreement.negotiation_id] IN
              /\ agreement.asset_id = negotiation.asset_id
              /\ HasAsset(negotiation.asset_id)
              /\ negotiation.policy_id = get_asset_by_id(negotiation.asset_id).policy_id
              /\ negotiation.policy_evaluation.present
              /\ transfer.state = "COMPLETED"
                 => /\ transfer.data.present
                    /\ transfer.data.file =
                          get_asset_by_id(negotiation.asset_id).data_file

\* A transfer of the quality metrics, which are not the first asset of the
\* catalog, is COMPLETED with its data attached.
C34_Witness ==
    \E t \in DOMAIN transfers :
        /\ transfers[t].state = "COMPLETED"
        /\ transfers[t].asset_id = "quality-metrics-q4"
        /\ transfers[t].data.file = "quality-data.json"

-----------------------------------------------------------------------------
(* Properties of a suspended transfer *)

\* C35: a transfer whose state_history holds SUSPENDED is SUSPENDED or
\* TERMINATED and has no data attached; a call leaves a SUSPENDED transfer
\* SUSPENDED or makes it TERMINATED, the only call that changes it is
\* terminate, and start, complete and suspend are answered 400 INVALID_STATE.
C35_SuspendedNeverResumes ==
    /\ [](\A t \in DOMAIN transfers :
             (\E i \in DOMAIN transfers[t].state_history :
                 transfers[t].state_history[i] = "SUSPENDED")
             => /\ transfers[t].state \in {"SUSPENDED", "TERMINATED"}
                /\ transfers[t].data = NoData)
    /\ [][\A t \in DOMAIN transfers \cap DOMAIN transfers' :
             transfers[t].state = "SUSPENDED"
             => /\ transfers'[t].state \in {"SUSPENDED", "TERMINATED"}
                /\ transfers'[t].data = NoData
                /\ transfers'[t] # transfers[t]
                      => /\ response'.op = "terminate_transfer"
                         /\ response'.id = t
                         /\ response'.status = 200
                /\ (response'.op \in {"start", "complete", "suspend"}
                    /\ response'.id = t)
                      => /\ response'.status = 400
                         /\ response'.error = "INVALID_STATE"]_vars

\* A complete call on a SUSPENDED transfer has just been refused.
C35_Witness ==
    /\ response.op = "complete"
    /\ response.status = 400
    /\ response.id \in DOMAIN transfers
    /\ transfers[response.id].state = "SUSPENDED"

\* C36: on the consumer, every local negotiation in FINALIZED has an
\* agreement_id that is set and names a locally stored agreement of status
\* ACTIVE; and every locally stored agreement has the id, and the asset, of
\* an agreement the provider made for the negotiation its local negotiation
\* mirrors.
C36_LocalAgreementIsProviders ==
    /\ \A id \in DOMAIN consumer_store.negotiations :
          LET local == consumer_store.negotiations[id] IN
          local.state = "FINALIZED"
          => /\ local.agreement_id # 0
             /\ local.agreement_id \in DOMAIN consumer_store.agreements
             /\ consumer_store.agreements[local.agreement_id].status = "ACTIVE"
             /\ consumer_store.agreements[local.agreement_id].negotiation_id = id
    /\ \A a \in DOMAIN consumer_store.agreements :
          LET agreement == consumer_store.agreements[a] IN
          /\ a \in DOMAIN agreements
          /\ agreement.negotiation_id \in DOMAIN consumer_store.negotiations
          /\ agreements[a].negotiation_id =
                consumer_store.negotiations[agreement.negotiation_id]
                    .provider_negotiation_id
          /\ agreements[a].asset_id = agreement.asset_id

\* A local negotiation is FINALIZED and the agreement the provider made for
\* it is stored locally.
C36_Witness ==
    \E id \in DOMAIN consumer_store.negotiations :
        /\ consumer_store.negotiations[id].state = "FINALIZED"
        /\ consumer_store.negotiations[id].agreement_id \in
              DOMAIN consumer_store.agreements \cap DOMAIN agreements

-----------------------------------------------------------------------------
(* Properties of the cached provider_state *)

\* The consumer's calls that mirror a transition of a negotiation.
NegotiationTransitions == {"request-offer", "agree", "verify", "finalize"}

\* C37: once a status read and a transition of the same local negotiation,
\* each answered 200 by the provider, have both finished, the provider_state
\* cached on the local record is the state the provider's negotiation has,
\* which is the state at the later of the two provider responses, also when
\* the two calls ran at the same time.
C37_CachedProviderStateIsLatest ==
    \A c, d \in Callers :
        (/\ calls[c].pc = "idle"
         /\ calls[d].pc = "idle"
         /\ calls[c].op \in NegotiationTransitions
         /\ calls[c].result.status = 200
         /\ calls[c].result.state # "UNKNOWN"
         /\ calls[d].op = "status"
         /\ calls[d].result.status = 200
         /\ calls[d].id = calls[c].id
         /\ calls[c].id \in DOMAIN negotiations)
        => consumer_store.negotiations[calls[c].id].provider_state =
              negotiations[calls[c].id].state

-----------------------------------------------------------------------------
(* Properties of the fields no transition writes *)

\* What identifies a negotiation and what it was requested with.
NegotiationIdentity(negotiation) ==
    <<negotiation.provider_id, negotiation.consumer_id, negotiation.asset_id,
      negotiation.policy_id, negotiation.created_at,
      negotiation.consumer_attributes>>

\* C38: whatever call is made, a negotiation that is in the store before and
\* after it keeps its id, provider_id, consumer_id, asset_id, policy_id,
\* created_at and stored consumer_attributes, also when an offer evaluates
\* attributes passed with the call; and an agreement that is in the store
\* before and after a call keeps every field.
C38_IdentityAndAgreementKept ==
    /\ [][\A n \in DOMAIN negotiations \cap DOMAIN negotiations' :
             NegotiationIdentity(negotiations'[n]) =
                NegotiationIdentity(negotiations[n])]_vars
    /\ [][\A a \in DOMAIN agreements \cap DOMAIN agreements' :
             agreements'[a] = agreements[a]]_vars

\* An offer has just refused, on attributes passed with the call, a
\* negotiation whose stored attributes the policy accepts and which still
\* holds them.
C38_Witness ==
    /\ response.op = "offer"
    /\ response.status = 200
    /\ response.id \in DOMAIN negotiations
    /\ LET negotiation == negotiations[response.id] IN
       /\ negotiation.state = "TERMINATED"
       /\ negotiation.consumer_attributes = ContextQualified
       /\ evaluate(POLICY_TEMPLATES[negotiation.policy_id],
                   negotiation.consumer_attributes).allowed

====
